---- MODULE Spec2Model ----
(***************************************************************************)
(* A model of the LLM gateway backend (src/backend/app): the provider      *)
(* store with its health fields, the health checker's sweep, the operator  *)
(* health override, the routing engine with its round-robin cursors, and   *)
(* the chat-completion pipeline (non-streaming and streaming).             *)
(***************************************************************************)
EXTENDS Integers, Sequences, FiniteSets, TLC

(***************************************************************************)
(* Bounds of the model and program constants.                              *)
(***************************************************************************)
\* number of provider rows in the store
NumProviders == 2
\* number of providers whose health changes: the ones the health checker's
\* sweeps cover and the operator overrides
NumProbed == 1
\* consecutive_failures is capped here by the guards of the failing probes
MaxFailures == 4
\* number of request threads selecting concurrently
NumThreads == 2
\* largest max_retries a chat-completion call is given
MaxRetries == 2
\* number of chunks a streaming call yields at most
MaxChunks == 2
\* largest id a row of a table is given
MaxId == 2
\* largest number of parts an interrupted write of the backup file leaves
MaxCut == 0
\* Settings.health_check_failure_threshold (default)
failure_threshold == 3

Providers == 1..NumProviders
Probed == {p \in Providers : p <= NumProbed}

VARIABLES
    providers,      \* external_apis rows: provider id -> row
    sweep,          \* the health checker's sweep: its session and position
    lastProbe,      \* history: outcome class of each provider's latest probe
    healthSetBy,    \* history: who wrote is_healthy last
    streak          \* history: failed sweep probes in a row since the row was
                    \* (0 failures, healthy) with no other write; -1: not known

VARIABLES
    route,                  \* the model_routes row under study, with its nodes
    round_robin_indices,    \* RoutingService._round_robin_indices
    selectLog,              \* history: the latest provider rotations on the route
    lastSelect              \* history: the latest call of select_provider_and_model,
                            \* reset_state or delete_route on the route

VARIABLES
    threads,        \* request threads inside select_provider_and_model
    state_lock,     \* RoutingService._state_lock: the threads holding it
    keyLog          \* history: per cursor key, the picks in lock order

VARIABLES
    req             \* the chat-completion call in progress: the locals of
                    \* process_chat_completion / stream_chat_completion and
                    \* the history of its selections, calls and chunks

VARIABLES
    parsed          \* the latest upstream response body an adapter has parsed,
                    \* with the chat completion parse_response made of it

VARIABLES
    upstream        \* the upstream body a stream_provider call is reading: what
                    \* the upstream sent, how far aiter_bytes has read, and
                    \* the chunks yielded so far

VARIABLES
    checker         \* the HealthChecker singleton: settings.health_check_enabled,
                    \* _shutdown_event, where _check_task is, and where the
                    \* caller of start() and stop() is

healthHist == <<lastProbe, healthSetBy, streak>>
VARIABLES
    db,             \* the committed database: external_apis and model_routes
    session,        \* the tables as the caller's Session holds them: db plus
                    \* the changes flushed or pending since its last commit
    backup_file,    \* the text at settings.backup_path
    written,        \* history: the backup file is a whole backup of the store,
                    \* which since then did nothing but lose rows
    lastCall        \* history: the latest call on the store and how it ended

healthVars == <<providers, sweep, lastProbe, healthSetBy, streak, checker>>
routingVars == <<route, round_robin_indices, selectLog, lastSelect>>
lockVars == <<threads, state_lock, keyLog>>
chatVars == <<req, parsed, upstream>>
storeVars == <<db, session, backup_file, written, lastCall>>
vars == <<healthVars, routingVars, lockVars, chatVars, storeVars>>

(***************************************************************************)
(* The provider store (db/models.py, ExternalAPI).                         *)
(***************************************************************************)
Statuses == {"unknown", "online", "degraded", "timeout", "unreachable", "error"}

\* a row as create_provider leaves it: the column defaults of ExternalAPI
NewProvider(active, models) ==
    [is_active |-> active, is_healthy |-> TRUE, consecutive_failures |-> 0,
     status |-> "unknown", latency_ms |-> "null", last_tested_at |-> "null",
     models |-> models]

\* the columns a probe writes
HealthFields ==
    {"status", "latency_ms", "last_tested_at", "consecutive_failures", "is_healthy"}

(***************************************************************************)
(* Health checker (services/health_checker.py).                            *)
(***************************************************************************)
\* outcome of one GET <base>/models
ProbeOutcomes == {"2xx", "non2xx", "timeout", "request_error", "exception"}

ProbeClass(outcome) == IF outcome = "2xx" THEN "ok" ELSE "fail"

\* what one call of _check_provider_health can meet: the outcomes of the
\* GET, or decrypt_api_key raising APIKeyEncryptionError before the try
SweepOutcomes == ProbeOutcomes \cup {"decrypt_error"}

\* mutant of HealthyAfterFailure: off by one at the threshold
HealthyAfterFailure_OffByOne(failures) == failures <= failure_threshold

\* provider.is_healthy = provider.consecutive_failures < failure_threshold
HealthyAfterFailure(failures) == failures < failure_threshold

\* mutant of FailuresAfterSuccess: the counter is left as it was
FailuresAfterSuccess_Kept(failures) == failures

\* provider.consecutive_failures = 0
FailuresAfterSuccess(failures) == 0

\* the assignments _check_provider_health makes to the session's object
CheckProviderHealth(row, outcome) ==
    CASE outcome = "decrypt_error" -> row
      [] outcome = "2xx" ->
            [row EXCEPT !.status = "online", !.latency_ms = "measured",
                        !.last_tested_at = "now",
                        !.consecutive_failures = FailuresAfterSuccess(@),
                        !.is_healthy = TRUE]
      [] outcome = "non2xx" ->
            [row EXCEPT !.status = "degraded", !.latency_ms = "measured",
                        !.last_tested_at = "now",
                        !.consecutive_failures = @ + 1,
                        !.is_healthy = HealthyAfterFailure(row.consecutive_failures + 1)]
      [] outcome = "timeout" ->
            [row EXCEPT !.status = "timeout", !.latency_ms = "null",
                        !.last_tested_at = "now",
                        !.consecutive_failures = @ + 1,
                        !.is_healthy = HealthyAfterFailure(row.consecutive_failures + 1)]
      [] outcome = "request_error" ->
            [row EXCEPT !.status = "unreachable", !.latency_ms = "null",
                        !.last_tested_at = "now",
                        !.consecutive_failures = @ + 1,
                        !.is_healthy = HealthyAfterFailure(row.consecutive_failures + 1)]
      [] OTHER ->
            [row EXCEPT !.status = "error", !.latency_ms = "null",
                        !.last_tested_at = "now",
                        !.consecutive_failures = @ + 1,
                        !.is_healthy = HealthyAfterFailure(row.consecutive_failures + 1)]

\* session.commit(): the UPDATE carries the columns whose value differs from
\* the value the session loaded; the other columns keep what the store holds
\* (a measured latency is a new float each time and datetime.now() a new
\* time, so they always differ)
Flush(stored, loaded, changed) ==
    [f \in DOMAIN stored |->
        IF /\ f \in HealthFields
           /\ \/ changed[f] # loaded[f]
              \/ f = "latency_ms" /\ changed[f] = "measured"
              \/ f = "last_tested_at" /\ changed[f] = "now"
        THEN changed[f] ELSE stored[f]]

NoRow == [is_active |-> FALSE]

IdleSweep == [pc |-> "idle", loaded |-> [p \in Providers |-> NoRow]]

\* _run_checks, lines 74-78: a new session reads the active providers
SweepLoad ==
    /\ sweep.pc = "idle"
    /\ sweep' = [pc |-> "loaded",
                 loaded |-> [p \in Providers |->
                               IF providers[p].is_active THEN providers[p] ELSE NoRow]]
    /\ UNCHANGED <<providers, healthHist, routingVars, lockVars, chatVars, storeVars>>

\* a sweep begins, whatever the loop task does
SweepStart == SweepLoad /\ UNCHANGED checker

InSweep(p) == sweep.loaded[p] # NoRow

\* whether another session committed to p's row since the sweep read it
Interfered(p) == providers[p] # sweep.loaded[p]

StreakAfterProbe(p, outcome, row) ==
    IF Interfered(p)
    THEN IF row.consecutive_failures = 0 /\ row.is_healthy THEN 0 ELSE -1
    ELSE IF outcome = "2xx" THEN 0
         ELSE IF streak[p] >= 0 THEN streak[p] + 1 ELSE -1

\* _run_checks, lines 80-89: every probe's assignments to the session's
\* objects, then one commit; the session is closed. asyncio.gather with
\* return_exceptions=True keeps what a task raises; a task that raised
\* before the GET is no probe and leaves the probe history alone
SweepCommitOn(outcomes) ==
    /\ sweep.pc = "loaded"
    /\ \E outcome \in [{p \in Providers : InSweep(p)} -> outcomes] :
        /\ \A p \in DOMAIN outcome :
              outcome[p] # "2xx" => sweep.loaded[p].consecutive_failures < MaxFailures
        /\ LET probed(p) == CheckProviderHealth(sweep.loaded[p], outcome[p])
               row(p) == Flush(providers[p], sweep.loaded[p], probed(p))
           IN /\ providers' = [p \in Providers |->
                                 IF InSweep(p) THEN row(p) ELSE providers[p]]
              /\ lastProbe' = [p \in Providers |->
                                 IF InSweep(p) /\ outcome[p] \in ProbeOutcomes
                                 THEN ProbeClass(outcome[p])
                                 ELSE lastProbe[p]]
              /\ healthSetBy' = [p \in Providers |->
                                   IF InSweep(p)
                                      /\ probed(p).is_healthy # sweep.loaded[p].is_healthy
                                   THEN "probe" ELSE healthSetBy[p]]
              /\ streak' = [p \in Providers |->
                              IF InSweep(p) /\ outcome[p] \in ProbeOutcomes
                              THEN StreakAfterProbe(p, outcome[p], row(p))
                              ELSE streak[p]]
              /\ sweep' = IdleSweep
              /\ UNCHANGED <<routingVars, lockVars, chatVars, storeVars>>

\* a sweep whose keys all decrypt
SweepCommit == SweepCommitOn(ProbeOutcomes) /\ UNCHANGED checker

\* a sweep in which a key may fail to decrypt
SweepCommitAny == SweepCommitOn(SweepOutcomes) /\ UNCHANGED checker

(***************************************************************************)
(* Operator override (api/routes/providers.py, set_provider_health).       *)
(***************************************************************************)
\* mutant of OverrideRow: the failure counter is left as it was
OverrideRow_KeepsFailures(row, healthy) == [row EXCEPT !.is_healthy = healthy]

\* provider.is_healthy = payload.is_healthy; provider.consecutive_failures = 0
OverrideRow(row, healthy) ==
    [row EXCEPT !.is_healthy = healthy, !.consecutive_failures = 0]

SetProviderHealth(p, healthy) ==
    /\ providers' = [providers EXCEPT ![p] = OverrideRow(@, healthy)]
    /\ healthSetBy' = [healthSetBy EXCEPT ![p] = "override"]
    /\ streak' = [streak EXCEPT ![p] = IF healthy THEN 0 ELSE -1]
    /\ UNCHANGED <<sweep, lastProbe, checker, routingVars, lockVars, chatVars, storeVars>>

(***************************************************************************)
(* Synchronous test (services/providers.py, test_provider_connectivity).   *)
(***************************************************************************)
TestOutcomes == {"2xx", "non2xx", "timeout", "request_error"}

TestStatus(outcome) ==
    CASE outcome = "2xx" -> "online"
      [] outcome = "non2xx" -> "degraded"
      [] outcome = "timeout" -> "timeout"
      [] OTHER -> "unreachable"

TestProviderConnectivity(p, outcome) ==
    /\ providers' = [providers EXCEPT
                        ![p].status = TestStatus(outcome),
                        ![p].latency_ms = IF outcome \in {"2xx", "non2xx"}
                                          THEN "measured" ELSE "null",
                        ![p].last_tested_at = "now"]
    /\ lastProbe' = [lastProbe EXCEPT ![p] = ProbeClass(outcome)]
    /\ UNCHANGED <<sweep, healthSetBy, streak, checker, routingVars, lockVars, chatVars, storeVars>>

(***************************************************************************)
(* The background task (services/health_checker.py, HealthChecker.start,   *)
(* stop and _check_loop), as main.py's startup and shutdown handlers call  *)
(* them: start() once, stop() after it.                                    *)
(***************************************************************************)
\* HealthChecker() before start(): no event, no task
NewChecker(enabled) ==
    [enabled |-> enabled, started |-> FALSE, event |-> "none", task |-> "none",
     stop |-> "idle"]

\* the task has returned or has been cancelled
TaskOver(task) == task \in {"done", "cancelled"}

\* start(): nothing when health checks are disabled, otherwise a new Event
\* and the task of _check_loop, which begins at the test of its while
Start ==
    /\ ~checker.started
    /\ checker' = IF checker.enabled
                  THEN [checker EXCEPT !.started = TRUE, !.event = "clear", !.task = "test"]
                  ELSE [checker EXCEPT !.started = TRUE]
    /\ UNCHANGED <<providers, sweep, healthHist, routingVars, lockVars, chatVars, storeVars>>

\* mutant of LoopContinues: the flag is not consulted
LoopContinues_Always(event) == TRUE

\* while not self._shutdown_event.is_set()
LoopContinues(event) == event # "set"

\* _check_loop at the test of its while: it leaves the loop, or it calls
\* _run_checks, which runs up to its await
LoopTest ==
    /\ checker.task = "test"
    /\ IF LoopContinues(checker.event)
       THEN /\ SweepLoad
            /\ checker' = [checker EXCEPT !.task = "sweep"]
       ELSE /\ checker' = [checker EXCEPT !.task = "done"]
            /\ UNCHANGED <<providers, sweep, healthHist, routingVars, lockVars,
                           chatVars, storeVars>>

\* the gather of _run_checks completes: commit, close; the loop goes on to
\* wait_for(self._shutdown_event.wait(), timeout=interval)
LoopRunChecks ==
    /\ checker.task = "sweep"
    /\ SweepCommitOn(SweepOutcomes)
    /\ checker' = [checker EXCEPT !.task = "wait"]

\* the wait ends: the event is set and the loop breaks, or the interval has
\* passed and the loop tests its condition again
LoopWait ==
    /\ checker.task = "wait"
    /\ checker' = [checker EXCEPT !.task = IF checker.event = "set" THEN "done" ELSE "test"]
    /\ UNCHANGED <<providers, sweep, healthHist, routingVars, lockVars, chatVars, storeVars>>

\* stop() up to its await: the event is set if there is one; with no task
\* there is nothing to wait for
Stop ==
    /\ checker.started
    /\ checker.stop = "idle"
    /\ checker' = [checker EXCEPT
                      !.event = IF @ = "none" THEN @ ELSE "set",
                      !.stop = IF checker.task = "none" THEN "done" ELSE "waiting"]
    /\ UNCHANGED <<providers, sweep, healthHist, routingVars, lockVars, chatVars, storeVars>>

\* await asyncio.wait_for(self._check_task, timeout=5.0) returns: the task
\* is over
StopReturn ==
    /\ checker.stop = "waiting"
    /\ TaskOver(checker.task)
    /\ checker' = [checker EXCEPT !.stop = "done"]
    /\ UNCHANGED <<providers, sweep, healthHist, routingVars, lockVars, chatVars, storeVars>>

\* the 5 seconds pass first: the task is cancelled at the await it is at.
\* CancelledError is no Exception: inside _run_checks only the finally
\* clause runs, session.close(), and nothing of the sweep is committed
StopTimeout ==
    /\ checker.stop = "waiting"
    /\ ~TaskOver(checker.task)
    /\ checker' = [checker EXCEPT !.stop = "done", !.task = "cancelled"]
    /\ sweep' = IdleSweep
    /\ UNCHANGED <<providers, healthHist, routingVars, lockVars, chatVars, storeVars>>

InitHealthHist ==
    /\ checker = NewChecker(TRUE)
    /\ lastProbe = [p \in Providers |-> "none"]
    /\ healthSetBy = [p \in Providers |-> "default"]
    /\ streak = [p \in Providers |-> 0]

(***************************************************************************)
(* Routing engine (services/routing.py): routes and their nodes.           *)
(***************************************************************************)
RouteModes == {"auto", "specific", "multi"}
Strategies == {"round-robin", "failover"}

\* the model hints of the callers; "" stands for no hint (None)
Hints == {"", "m1", "m2", "m3"}

\* config["providerMode"] naming one provider
ProviderMode(p) == "provider_" \o ToString(p)

\* int(provider_mode.replace('provider_', ''))
ProviderIdOf(provider_mode) == CHOOSE p \in Providers : ProviderMode(p) = provider_mode

RouteNode(api_id, models, strategy, priority) ==
    [api_id |-> api_id, models |-> models, strategy |-> strategy,
     priority |-> priority]

\* the name of the route under study
RouteName == "route-1"

ModelRoute(mode, active, provider_mode, selected_models, nodes) ==
    [name |-> RouteName, mode |-> mode, is_active |-> active,
     config |-> [providerMode |-> provider_mode, selectedModels |-> selected_models],
     route_nodes |-> nodes]

Contains(s, x) == \E i \in 1..Len(s) : s[i] = x

\* the keys of _round_robin_indices for the route: route.id for the node
\* cursor, f"provider_{route_id}" for the provider cursor
NodeKey == "route_id"
ProviderKey == "provider_route_id"

(***************************************************************************)
(* Routing engine: the outcome of a selection.                             *)
(***************************************************************************)
\* RouteServiceError
Failure == [ok |-> FALSE]

\* RouteNotFoundError, raised by get_route
RouteNotFound == [ok |-> FALSE, error |-> "RouteNotFoundError"]

\* the (provider id, model) pair returned
Selected(p, model) == [ok |-> TRUE, provider |-> p, model |-> model]

\* a selection that returns without touching a cursor
Done(result) == [kind |-> "done", result |-> result]

\* a selection that rotates the cursor `key` over the candidates `cand` and
\* then derives the model by the rule `then`
Rotate(key, cand, then) == [kind |-> "rr", key |-> key, cand |-> cand, then |-> then]

\* mutant of Usable: the health flag is not looked at
Usable_ActiveOnly(p) == providers[p].is_active

\* filter(is_active == True, is_healthy == True)
Usable(p) == providers[p].is_active /\ providers[p].is_healthy

\* the query's result list (in primary-key order)
ActiveProviders == SelectSeq([i \in 1..NumProviders |-> i], LAMBDA p : Usable(p))

\* index of the first element of s that is in the set `passing`
FirstIn(s, passing) ==
    CHOOSE i \in 1..Len(s) : s[i] \in passing /\ \A j \in 1..(i - 1) : s[j] \notin passing

\* node.models if node.models else provider.models
NodeModels(node) ==
    IF node.models # <<>> THEN node.models ELSE providers[node.api_id].models

PickModelFromNode(node, model_hint) ==
    LET node_models == NodeModels(node)
    IN IF node_models = <<>> THEN Failure
       ELSE IF model_hint # ""
            THEN IF Contains(node_models, model_hint)
                 THEN Selected(node.api_id, model_hint) ELSE Failure
            ELSE Selected(node.api_id, node_models[1])

\* the tail of _select_auto_with_config and _select_specific_with_config
PickModelFromConfig(p, selected_models, model_hint) ==
    IF model_hint # ""
    THEN IF Contains(selected_models, model_hint)
         THEN Selected(p, model_hint) ELSE Failure
    ELSE Selected(p, selected_models[1])

SelectAutoWithConfig(rt, model_hint) ==
    IF rt.config.providerMode = "all"
    THEN IF ActiveProviders = <<>> THEN Done(Failure)
         ELSE Rotate(ProviderKey, ActiveProviders, "config_model")
    ELSE LET p == ProviderIdOf(rt.config.providerMode)
         IN IF ~Usable(p) THEN Done(Failure)
            ELSE Done(PickModelFromConfig(p, rt.config.selectedModels, model_hint))

SelectAuto(rt, model_hint) ==
    IF rt.config.selectedModels # <<>> THEN SelectAutoWithConfig(rt, model_hint)
    ELSE IF rt.config.providerMode = "all"
    THEN IF ActiveProviders = <<>> THEN Done(Failure)
         ELSE IF model_hint # ""
         THEN LET HasHint(p) == Contains(providers[p].models, model_hint)
              IN IF \E i \in 1..Len(ActiveProviders) : HasHint(ActiveProviders[i])
                 THEN Done(Selected(ActiveProviders[FirstIn(ActiveProviders,
                                        {p \in Providers : HasHint(p)})],
                                    model_hint))
                 ELSE IF \A i \in 1..Len(ActiveProviders) :
                            providers[ActiveProviders[i]].models = <<>>
                      THEN Done(Failure)
                      ELSE Rotate(ProviderKey, ActiveProviders, "first_or_available")
         ELSE Rotate(ProviderKey, ActiveProviders, "first_model")
    ELSE LET p == ProviderIdOf(rt.config.providerMode)
         IN IF ~Usable(p) THEN Done(Failure)
            ELSE IF model_hint # ""
            THEN IF Contains(providers[p].models, model_hint)
                 THEN Done(Selected(p, model_hint)) ELSE Done(Failure)
            ELSE IF providers[p].models = <<>> THEN Done(Failure)
            ELSE Done(Selected(p, providers[p].models[1]))

SelectSpecificWithConfig(rt, model_hint) ==
    IF rt.route_nodes = <<>> THEN Done(Failure)
    ELSE LET node == rt.route_nodes[1]
         IN IF ~Usable(node.api_id) THEN Done(Failure)
            ELSE Done(PickModelFromConfig(node.api_id, rt.config.selectedModels,
                                          model_hint))

SelectSpecific(rt, model_hint) ==
    IF rt.config.selectedModels # <<>> THEN SelectSpecificWithConfig(rt, model_hint)
    ELSE IF rt.route_nodes = <<>> THEN Done(Failure)
    ELSE LET node == rt.route_nodes[1]
             available_models == NodeModels(node)
         IN IF ~Usable(node.api_id) THEN Done(Failure)
            ELSE IF available_models = <<>> THEN Done(Failure)
            ELSE IF model_hint # "" /\ Contains(available_models, model_hint)
            THEN Done(Selected(node.api_id, model_hint))
            ELSE Done(Selected(node.api_id, available_models[1]))

\* the indices of the nodes whose provider is active and healthy, sorted by
\* priority (sorted() is stable: equal priorities keep the list order)
SortedActiveNodes(rt) ==
    LET S == {i \in 1..Len(rt.route_nodes) : Usable(rt.route_nodes[i].api_id)}
        Before(a, b) ==
            \/ rt.route_nodes[a].priority < rt.route_nodes[b].priority
            \/ /\ rt.route_nodes[a].priority = rt.route_nodes[b].priority
               /\ a < b
    IN CHOOSE s \in [1..Cardinality(S) -> S] :
          \A i, j \in 1..Cardinality(S) : i < j => Before(s[i], s[j])

SelectMulti(rt, model_hint) ==
    LET active_nodes == SortedActiveNodes(rt)
        Matches(i) == model_hint = "" \/ Contains(NodeModels(rt.route_nodes[i]), model_hint)
    IN IF active_nodes = <<>> THEN Done(Failure)
       ELSE IF \E k \in 1..Len(active_nodes) : Matches(active_nodes[k])
       THEN LET i == active_nodes[FirstIn(active_nodes,
                          {k \in 1..Len(rt.route_nodes) : Matches(k)})]
            IN IF rt.route_nodes[i].strategy = "round-robin"
               THEN Rotate(NodeKey, <<i>>, "pick_from_node")
               ELSE Done(PickModelFromNode(rt.route_nodes[i], model_hint))
       ELSE LET selected_node == rt.route_nodes[active_nodes[1]]
                HasModels(i) == NodeModels(rt.route_nodes[i]) # <<>>
            IN IF \A k \in 1..Len(active_nodes) : ~HasModels(active_nodes[k])
               THEN Done(Failure)
               ELSE IF NodeModels(selected_node) # <<>>
               THEN Done(Selected(selected_node.api_id, NodeModels(selected_node)[1]))
               ELSE Done(Selected(selected_node.api_id,
                        NodeModels(rt.route_nodes[
                            active_nodes[FirstIn(active_nodes,
                                {k \in 1..Len(rt.route_nodes) : HasModels(k)})]])[1]))

\* mutant of SelectPlan: an inactive route is served like an active one
SelectPlan_ServesInactive(rt, model_hint) ==
    IF rt.name = "" THEN Done(RouteNotFound)
    ELSE IF rt.mode = "auto" THEN SelectAuto(rt, model_hint)
    ELSE IF rt.mode = "specific" THEN SelectSpecific(rt, model_hint)
    ELSE IF rt.route_nodes = <<>> THEN Done(Failure)
    ELSE SelectMulti(rt, model_hint)

\* select_provider_and_model up to the rotation: get_route raises when the
\* row is gone, an inactive route raises, the mode decides the rest
SelectPlan(rt, model_hint) ==
    IF rt.name = "" THEN Done(RouteNotFound)
    ELSE IF ~rt.is_active THEN Done(Failure)
    ELSE IF rt.mode = "auto" THEN SelectAuto(rt, model_hint)
    ELSE IF rt.mode = "specific" THEN SelectSpecific(rt, model_hint)
    ELSE IF rt.route_nodes = <<>> THEN Done(Failure)
    ELSE SelectMulti(rt, model_hint)

\* select_provider_and_model after the rotation picked `selected`
SelectFinish(rt, model_hint, plan, selected) ==
    CASE plan.then = "first_model" ->
            IF providers[selected].models = <<>> THEN Failure
            ELSE Selected(selected, providers[selected].models[1])
      [] plan.then = "first_or_available" ->
            LET HasModels(p) == providers[p].models # <<>>
            IN Selected(selected,
                        IF HasModels(selected) THEN providers[selected].models[1]
                        ELSE providers[plan.cand[FirstIn(plan.cand,
                                {p \in Providers : HasModels(p)})]].models[1])
      [] plan.then = "config_model" ->
            PickModelFromConfig(selected, rt.config.selectedModels, model_hint)
      [] OTHER -> PickModelFromNode(rt.route_nodes[selected], model_hint)

(***************************************************************************)
(* Routing engine: the round-robin cursors.                                *)
(***************************************************************************)
\* self._round_robin_indices.get(key, 0)
CursorOf(indices, key) == IF key \in DOMAIN indices THEN indices[key] ELSE 0

\* mutant of NextIndex: the cursor is not advanced
NextIndex_Stuck(current_index, n) == current_index % n

\* (current_index + 1) % len(providers)
NextIndex(current_index, n) == (current_index + 1) % n

\* providers[current_index % len(providers)]
PickAt(cand, current_index) == cand[(current_index % Len(cand)) + 1]

\* self._round_robin_indices[key] = value
SetCursor(indices, key, value) ==
    [k \in DOMAIN indices \cup {key} |-> IF k = key THEN value ELSE indices[k]]

NoCursors == [k \in {} |-> 0]

\* one whole call of select_provider_and_model on the route, the cursors
\* being `indices`: its result and the cursors it leaves
SelectOutcome(rt, model_hint, indices) ==
    LET plan == SelectPlan(rt, model_hint)
    IN IF plan.kind = "done"
       THEN [result |-> plan.result, indices |-> indices, plan |-> plan]
       ELSE LET current_index == CursorOf(indices, plan.key)
                selected == PickAt(plan.cand, current_index)
            IN [result |-> SelectFinish(rt, model_hint, plan, selected),
                indices |-> SetCursor(indices, plan.key,
                                      NextIndex(current_index, Len(plan.cand))),
                plan |-> plan]

(***************************************************************************)
(* History of the provider rotations.                                      *)
(***************************************************************************)
LogWindow == NumProviders + 1

EmptyLog == [cand |-> <<>>, picks |-> <<>>]

\* the log extended by a pick among `cand`; it restarts when the candidate
\* list differs from the one of the entries it holds
LogPick(log, cand, pick) ==
    IF log.cand # cand THEN [cand |-> cand, picks |-> <<pick>>]
    ELSE IF Len(log.picks) < LogWindow
    THEN [log EXCEPT !.picks = Append(@, pick)]
    ELSE [log EXCEPT !.picks = Append(Tail(@), pick)]

\* selectLog after a call of select_provider_and_model: it holds the latest
\* run of successful selections without a hint that rotated the provider
\* cursor over one and the same pool
LogSelect(log, model_hint, out) ==
    IF /\ out.plan.kind = "rr" /\ out.plan.key = ProviderKey
       /\ model_hint = "" /\ out.result.ok
    THEN LogPick(log, out.plan.cand, out.result.provider)
    ELSE EmptyLog

\* history: no call on the route's scheduling state yet
NoSelect == [op |-> "none"]

\* POST /api/routes/{id}/select, taken as one step
SelectProviderAndModel(model_hint) ==
    LET out == SelectOutcome(route, model_hint, round_robin_indices)
    IN /\ round_robin_indices' = out.indices
       /\ selectLog' = LogSelect(selectLog, model_hint, out)
       /\ lastSelect' = [op |-> "select", model_hint |-> model_hint,
                         result |-> out.result, route |-> route,
                         usable |-> {p \in Providers :
                                        /\ providers[p].is_active
                                        /\ providers[p].is_healthy}]
       /\ UNCHANGED <<route, healthVars, lockVars, chatVars, storeVars>>

\* reset_state: the cursor under the key route_id is dropped
ResetState(indices, route_id) ==
    [k \in DOMAIN indices \ {route_id} |-> indices[k]]

\* get_state(route.id): the cursors it reports, those under the key route.id
GetState(indices) == [k \in DOMAIN indices \cap {NodeKey} |-> indices[k]]

\* reset_state(route.id), called on its own or by delete_route, which then
\* deletes the row: a later get_route raises RouteNotFoundError, and the
\* row left here has no name and is not active
ResetRouteState(delete) ==
    /\ route.name # ""
    /\ round_robin_indices' = ResetState(round_robin_indices, NodeKey)
    /\ route' = IF delete
                THEN [route EXCEPT !.name = "", !.is_active = FALSE] ELSE route
    /\ selectLog' = EmptyLog
    /\ lastSelect' = [op |-> IF delete THEN "delete_route" ELSE "reset_state"]
    /\ UNCHANGED <<healthVars, lockVars, chatVars, storeVars>>

(***************************************************************************)
(* Routing engine: concurrent selections, statement by statement.          *)
(***************************************************************************)
IdleThread == [pc |-> "idle"]

\* mutant of LockAvailable: the cursor is read and written without the lock
LockAvailable_NoLock(t) == TRUE

\* with self._state_lock: the RLock is free or already held by the thread
LockAvailable(t) == state_lock \subseteq {t}

\* a request thread enters select_provider_and_model and reaches
\* _apply_round_robin_to_providers or _apply_round_robin_strategy with the
\* candidates its session read
SelectBegin(t, model_hint) ==
    /\ threads[t].pc = "idle"
    /\ LET plan == SelectPlan(route, model_hint)
       IN /\ plan.kind = "rr"
          /\ threads' = [threads EXCEPT ![t] =
                            [pc |-> "acquire", key |-> plan.key, cand |-> plan.cand]]
    /\ UNCHANGED <<state_lock, keyLog, healthVars, routingVars, chatVars, storeVars>>

\* with self._state_lock: current_index = self._round_robin_indices.get(key, 0)
AcquireAndRead(t) ==
    /\ threads[t].pc = "acquire"
    /\ LockAvailable(t)
    /\ state_lock' = state_lock \cup {t}
    /\ threads' = [threads EXCEPT ![t] =
                      [pc |-> "write", key |-> @.key, cand |-> @.cand,
                       current_index |-> CursorOf(round_robin_indices, @.key)]]
    /\ UNCHANGED <<keyLog, healthVars, routingVars, chatVars, storeVars>>

\* selected = ...[current_index % len]; self._round_robin_indices[key] = ...;
\* the with block is left and the selection returns
WriteAndRelease(t) ==
    /\ threads[t].pc = "write"
    /\ LET th == threads[t]
       IN /\ round_robin_indices' =
                SetCursor(round_robin_indices, th.key,
                          NextIndex(th.current_index, Len(th.cand)))
          /\ keyLog' = [keyLog EXCEPT ![th.key] =
                            LogPick(@, th.cand, PickAt(th.cand, th.current_index))]
    /\ state_lock' = state_lock \ {t}
    /\ threads' = [threads EXCEPT ![t] = IdleThread]
    /\ UNCHANGED <<route, selectLog, lastSelect, healthVars, chatVars, storeVars>>

(***************************************************************************)
(* Provider adapters (services/adapters/base.py): what one upstream call   *)
(* raises or returns.  status 0 stands for "no status code" (None).        *)
(***************************************************************************)
\* a 2xx response with a well-formed body
Ok == [kind |-> "ok", status |-> 200]

\* httpx.HTTPStatusError -> ProviderAdapterError(detail, status_code)
HttpError(status_code) == [kind |-> "http_error", status |-> status_code]

\* httpx.RequestError -> ProviderAdapterError(message), status_code None
RequestError == [kind |-> "request_error", status |-> 0]

\* any other exception (a body that does not parse, ...)
UnexpectedError == [kind |-> "exception", status |-> 0]

\* RouteServiceError raised by the selection: it has no status_code
RouteError == [kind |-> "route_error", status |-> 0]

UpstreamOutcomes ==
    {Ok, HttpError(400), HttpError(429), HttpError(503), RequestError, UnexpectedError}

\* asyncio.CancelledError thrown into the task at the await of the upstream
\* call: the client has disconnected
Cancelled == [kind |-> "cancelled", status |-> 0]

\* what can end a response stream after its 2xx status line
StreamFailures == {RequestError, UnexpectedError}

(***************************************************************************)
(* Response parsing of the adapters (services/adapters/anthropic.py,       *)
(* services/adapters/gemini.py): the upstream body is a record that has a  *)
(* field exactly when the JSON object has the key; None is "null".         *)
(***************************************************************************)
\* most blocks (Anthropic) or parts (Gemini) of one upstream message
MaxParts == 2

\* the finish_reason values of an OpenAI chat completion
OpenAIFinishReasons == {"stop", "length", "content_filter", "tool_calls"}

\* for block in response_data["content"]:
\*     if block.get("type") == "text": content += block.get("text", "")
RECURSIVE AnthropicContent(_, _)
AnthropicContent(content, blocks) ==
    IF blocks = <<>> THEN content
    ELSE LET block == Head(blocks)
         IN AnthropicContent(
                IF block.type = "text"
                THEN content \o (IF "text" \in DOMAIN block THEN block.text ELSE "")
                ELSE content,
                Tail(blocks))

\* stop_reason_map.get(stop_reason, stop_reason)
AnthropicFinishReason(stop_reason) ==
    CASE stop_reason = "end_turn" -> "stop"
      [] stop_reason = "max_tokens" -> "length"
      [] stop_reason = "stop_sequence" -> "stop"
      [] OTHER -> stop_reason

\* AnthropicAdapter.parse_response: choices[0] of what it returns
AnthropicParseResponse(response_data) ==
    [content |-> IF "content" \in DOMAIN response_data
                 THEN AnthropicContent("", response_data.content)
                 ELSE "",
     finish_reason |-> IF "stop_reason" \in DOMAIN response_data
                       THEN AnthropicFinishReason(response_data.stop_reason)
                       ELSE "null"]

\* for part in candidate["content"]["parts"]:
\*     if "text" in part: content += part["text"]
RECURSIVE GeminiContent(_, _)
GeminiContent(content, parts) ==
    IF parts = <<>> THEN content
    ELSE LET part == Head(parts)
         IN GeminiContent(
                IF "text" \in DOMAIN part THEN content \o part.text ELSE content,
                Tail(parts))

\* finish_reason_map.get(candidate["finishReason"], "stop")
GeminiFinishReason(finishReason) ==
    CASE finishReason = "STOP" -> "stop"
      [] finishReason = "MAX_TOKENS" -> "length"
      [] finishReason = "SAFETY" -> "content_filter"
      [] finishReason = "RECITATION" -> "content_filter"
      [] OTHER -> "stop"

\* GeminiAdapter.parse_response: choices[0] of what it returns
GeminiParseResponse(response_data) ==
    IF "candidates" \in DOMAIN response_data /\ response_data.candidates # <<>>
    THEN LET candidate == response_data.candidates[1]
         IN [content |-> IF /\ "content" \in DOMAIN candidate
                            /\ "parts" \in DOMAIN candidate.content
                         THEN GeminiContent("", candidate.content.parts)
                         ELSE "",
             finish_reason |-> IF "finishReason" \in DOMAIN candidate
                               THEN GeminiFinishReason(candidate.finishReason)
                               ELSE "null"]
    ELSE [content |-> "", finish_reason |-> "null"]

\* the sequences of at most n elements of S
SeqUpTo(S, n) == UNION {[1..k -> S] : k \in 0..n}

\* content blocks of the Messages API: text blocks, one of them without
\* its text, and a tool call
AnthropicBlocks ==
    {[type |-> "text", text |-> "a"], [type |-> "text", text |-> "b"],
     [type |-> "text"], [type |-> "tool_use"]}

\* stop_reason values of the Messages API, with JSON null
StopReasons == {"end_turn", "max_tokens", "stop_sequence", "tool_use", "null"}

\* upstream bodies of the Messages API: stop_reason is present or not
AnthropicResponses ==
    LET contents == SeqUpTo(AnthropicBlocks, MaxParts)
    IN {[content |-> c] : c \in contents}
       \cup {[content |-> c, stop_reason |-> s] : c \in contents, s \in StopReasons}
       \cup {[stop_reason |-> s] : s \in StopReasons}

\* parts of a generateContent candidate: text and inline data
GeminiParts == {[text |-> "a"], [text |-> "b"], [inlineData |-> "x"]}

\* finishReason values of generateContent
FinishReasons == {"STOP", "MAX_TOKENS", "SAFETY", "RECITATION", "OTHER"}

\* upstream bodies of generateContent: no candidate (a blocked prompt), or
\* one candidate, with or without its content and its finishReason
GeminiResponses ==
    LET contents == {[parts |-> ps] : ps \in SeqUpTo(GeminiParts, MaxParts)}
        candidates ==
            {[content |-> c] : c \in contents}
            \cup {[content |-> c, finishReason |-> f] : c \in contents, f \in FinishReasons}
            \cup {[finishReason |-> f] : f \in FinishReasons}
    IN {[candidates |-> <<>>], [promptFeedback |-> "blocked"]}
       \cup {[candidates |-> <<c>>] : c \in candidates}

\* nothing has been parsed
NoParse == [adapter |-> "none"]

\* call_provider of an AnthropicAdapter on a 2xx answer:
\* return self.parse_response(response_data, model, request_id)
ParseAnthropic(response_data) ==
    /\ parsed' = [adapter |-> "anthropic", response_data |-> response_data,
                  choice |-> AnthropicParseResponse(response_data)]
    /\ UNCHANGED <<req, upstream, healthVars, routingVars, lockVars, storeVars>>

\* call_provider of a GeminiAdapter on a 2xx answer
ParseGemini(response_data) ==
    /\ parsed' = [adapter |-> "gemini", response_data |-> response_data,
                  choice |-> GeminiParseResponse(response_data)]
    /\ UNCHANGED <<req, upstream, healthVars, routingVars, lockVars, storeVars>>

(***************************************************************************)
(* Streaming of the adapters (services/adapters/base.py stream_provider,   *)
(* parse_stream_chunk of services/adapters/openai.py and anthropic.py).    *)
(* The upstream body is a sequence of units of bytes; a frame of the       *)
(* upstream is the line "data: <json>" and an empty line. A network read   *)
(* may end between any two units.                                          *)
(***************************************************************************)
\* most data frames of one upstream body
MaxFrames == 2

\* the JSON payloads an upstream sends
Payloads == {"c1", "c2"}

StreamAdapters == {"openai", "anthropic"}

\* the line "data: {...}" and the empty line that ends the event
Frame(x) == <<"da", "ta: ", "{", x, "}", "\n", "\n">>

\* the sentinel that ends an OpenAI stream
DoneFrame == <<"da", "ta: ", "[DONE]", "\n", "\n">>

RECURSIVE Body(_)
Body(sent) == IF sent = <<>> THEN <<>> ELSE Frame(Head(sent)) \o Body(Tail(sent))

\* str.strip(): the whitespace at both ends goes
RECURSIVE StripChunk(_)
StripChunk(s) ==
    IF s = <<>> THEN s
    ELSE IF Head(s) = "\n" THEN StripChunk(Tail(s))
    ELSE IF s[Len(s)] = "\n" THEN StripChunk(SubSeq(s, 1, Len(s) - 1))
    ELSE s

\* str.split("\n"), `line` being the line in progress
RECURSIVE SplitLines(_, _)
SplitLines(s, line) ==
    IF s = <<>> THEN <<line>>
    ELSE IF Head(s) = "\n" THEN <<line>> \o SplitLines(Tail(s), <<>>)
    ELSE SplitLines(Tail(s), Append(line, Head(s)))

\* line.startswith("data: ")
StartsWithData(line) == Len(line) >= 2 /\ line[1] = "da" /\ line[2] = "ta: "

\* json.loads(data): an object when data is a whole JSON text, else
\* JSONDecodeError
JsonLoadsData(data) ==
    IF Len(data) = 3 /\ data[1] = "{" /\ data[2] \in Payloads /\ data[3] = "}"
    THEN [ok |-> TRUE, value |-> data[2]]
    ELSE [ok |-> FALSE]

\* the chunk an adapter makes of one upstream object: OpenAI passes it
\* through, Anthropic turns a text_delta into an OpenAI chunk
ChunkOf(adapter, value) ==
    IF adapter = "openai" THEN [object |-> value]
    ELSE [object |-> "chat.completion.chunk",
          delta |-> [content |-> value], finish_reason |-> "null"]

\* the body of `for line in lines:` on one line
ParseLine(adapter, raw) ==
    LET line == StripChunk(raw)
        data == SubSeq(line, 3, Len(line))
    IN IF line = <<>> THEN <<>>
       ELSE IF ~StartsWithData(line) THEN <<>>
       ELSE IF adapter = "openai" /\ data = <<"[DONE]">> THEN <<>>
       ELSE IF JsonLoadsData(data).ok THEN <<ChunkOf(adapter, JsonLoadsData(data).value)>>
       ELSE <<>>

RECURSIVE ParseLines(_, _)
ParseLines(adapter, lines) ==
    IF lines = <<>> THEN <<>>
    ELSE ParseLine(adapter, Head(lines)) \o ParseLines(adapter, Tail(lines))

\* parse_stream_chunk: lines = chunk.decode("utf-8").strip().split("\n")
ParseStreamChunk(adapter, chunk) == ParseLines(adapter, SplitLines(StripChunk(chunk), <<>>))

\* no stream_provider call
NoStream == [pc |-> "none"]

\* the call as client.stream(...) has answered 2xx
NewStream(adapter, sent, done) ==
    [pc |-> "reading", adapter |-> adapter, sent |-> sent,
     body |-> Body(sent) \o (IF done THEN DoneFrame ELSE <<>>),
     pos |-> 0, chunks |-> <<>>]

\* async for chunk in response.aiter_bytes(): if chunk:
\*     async for parsed_chunk in self.parse_stream_chunk(...): yield parsed_chunk
StreamProviderRead ==
    /\ upstream.pc = "reading"
    /\ \E n \in 1..(Len(upstream.body) - upstream.pos) :
          LET chunk == SubSeq(upstream.body, upstream.pos + 1, upstream.pos + n)
          IN upstream' = [upstream EXCEPT
                 !.pos = @ + n,
                 !.chunks = @ \o ParseStreamChunk(upstream.adapter, chunk)]
    /\ UNCHANGED <<req, parsed, healthVars, routingVars, lockVars, storeVars>>

\* aiter_bytes() is exhausted
StreamProviderEnd ==
    /\ upstream.pc = "reading"
    /\ upstream.pos = Len(upstream.body)
    /\ upstream' = [upstream EXCEPT !.pc = "ended"]
    /\ UNCHANGED <<req, parsed, healthVars, routingVars, lockVars, storeVars>>


(***************************************************************************)
(* Chat-completion pipeline (services/chat_completions.py).                *)
(***************************************************************************)
\* getattr(e, "status_code", None) or default
StatusOrDefault(status_code, default) == IF status_code = 0 THEN default ELSE status_code

\* mutant of IsClientError: the lower bound is exclusive
IsClientError_Exclusive(status_code) == status_code > 400 /\ status_code < 500

\* status_code >= 400 and status_code < 500
IsClientError(status_code) == status_code >= 400 /\ status_code < 500

\* mutant of AlreadyAttempted: the set of attempted providers is not consulted
AlreadyAttempted_Never(provider_id, attempted_providers) == FALSE

\* provider_id in attempted_providers
AlreadyAttempted(provider_id, attempted_providers) == provider_id \in attempted_providers

\* the locals of a call right before its loop, and its empty history
NewRequest(stream, model_hint, max_retries) ==
    [pc |-> "loop", stream |-> stream, model_hint |-> model_hint,
     max_retries |-> max_retries, attempt |-> 0, attempted_providers |-> {},
     last_error |-> 0, status |-> 0, current |-> 0,
     \* history
     skipped |-> FALSE,     \* a selection was skipped as already attempted
     calls |-> <<>>,        \* the upstream calls: provider and status
     idle_selects |-> 0,    \* selections made since the latest upstream call
     selects |-> 0,         \* selections made
     yielded |-> <<>>,      \* the provider of each chunk yielded to the caller
     late_select |-> FALSE, \* a selection was made after a chunk was yielded
     broken |-> FALSE,      \* a stream failed after a chunk had been yielded
     cancelled |-> FALSE]   \* the task of the call was cancelled

NoRequest == [NewRequest(FALSE, "", 0) EXCEPT !.pc = "idle"]

\* raise ChatCompletionError(message, status_code)
Raise(r, status_code) == [r EXCEPT !.pc = "done", !.status = status_code, !.current = 0]

\* mutant of InRange: the range has one more element
InRange_Inclusive(attempt, max_retries) == attempt <= max_retries

\* attempt in range(max_retries)
InRange(attempt, max_retries) == attempt < max_retries

\* `continue`: the next iteration of `for attempt in range(max_retries)`, or
\* the statements after the loop when the range is exhausted
Continue(r, last_error) ==
    LET n == [r EXCEPT !.pc = "loop", !.attempt = @ + 1, !.last_error = last_error,
                       !.current = 0]
    IN IF InRange(n.attempt, n.max_retries) THEN n
       ELSE Raise(n, StatusOrDefault(n.last_error, 502))

\* the two except clauses of the loop body
HandleError(r, e) ==
    IF e.kind = "exception" THEN Continue(r, 0)
    ELSE LET status_code == StatusOrDefault(e.status, 500)
         IN IF IsClientError(status_code)
            THEN Raise([r EXCEPT !.last_error = e.status], status_code)
            ELSE Continue(r, e.status)

\* mutant of IsException: the last clause is `except BaseException`
IsException_Base(e) == TRUE

\* whether `except (RouteServiceError, ProviderAdapterError)` or
\* `except Exception` matches: CancelledError derives from BaseException
IsException(e) == e.kind # "cancelled"

\* an exception no clause matches leaves the function
Propagate(r) == [r EXCEPT !.pc = "cancelled", !.current = 0]

\* one iteration of the loop body, the selection having returned `result`
\* and the upstream answering `outcome` if it is called
AttemptResult(r, result, outcome) ==
    LET r1 == [r EXCEPT !.idle_selects = @ + 1, !.selects = @ + 1,
                        !.late_select = @ \/ r.yielded # <<>>]
    IN IF ~result.ok THEN HandleError(r1, RouteError)
       ELSE IF AlreadyAttempted(result.provider, r.attempted_providers)
       THEN Continue([r1 EXCEPT !.skipped = TRUE], r.last_error)
       ELSE LET r2 == [r1 EXCEPT
                          !.attempted_providers = @ \cup {result.provider},
                          !.calls = Append(@, [provider |-> result.provider,
                                               status |-> outcome.status]),
                          !.idle_selects = 0]
            IN IF outcome.kind = "cancelled"
               THEN LET r3 == [r2 EXCEPT !.cancelled = TRUE]
                    IN IF IsException(outcome) THEN HandleError(r3, outcome)
                       ELSE Propagate(r3)
               ELSE IF outcome.kind # "ok" THEN HandleError(r2, outcome)
               ELSE IF r.stream
               THEN [r2 EXCEPT !.pc = "streaming", !.current = result.provider]
               ELSE [r2 EXCEPT !.pc = "done", !.status = 200,
                               !.current = result.provider]

\* the inputs of a call: route_name "" stands for None
RouteNames == {"", RouteName}
RequestModels == {RouteName, "m1", "m3"}

\* process_chat_completion / stream_chat_completion up to the loop
StartRequest(stream, route_name, model, max_retries) ==
    /\ req.pc = "idle"
    /\ LET effective_route_name == IF route_name # "" THEN route_name ELSE model
           model_hint == IF route_name # "" THEN model ELSE ""
           r == NewRequest(stream, model_hint, max_retries)
       IN req' = IF route.name # effective_route_name THEN Raise(r, 404)
                 ELSE IF ~route.is_active THEN Raise(r, 400)
                 ELSE r
    /\ UNCHANGED <<healthVars, routingVars, lockVars, storeVars, parsed, upstream>>

\* the call has returned or raised: its locals are gone
Return ==
    /\ req.pc \in {"done", "cancelled"}
    /\ req' = NoRequest
    /\ UNCHANGED <<healthVars, routingVars, lockVars, storeVars, parsed, upstream>>

\* one iteration of the loop of either function: selection, skip of an
\* already attempted provider, upstream call, handling of its outcome
AttemptOn(outcomes) ==
    /\ req.pc = "loop"
    /\ LET out == SelectOutcome(route, req.model_hint, round_robin_indices)
       IN /\ round_robin_indices' = out.indices
          /\ selectLog' = LogSelect(selectLog, req.model_hint, out)
          /\ \E outcome \in outcomes :
                req' = AttemptResult(req, out.result, outcome)
    /\ UNCHANGED <<route, lastSelect, healthVars, lockVars, storeVars, parsed, upstream>>

\* an iteration whose upstream call, if made, returns or raises
Attempt == AttemptOn(UpstreamOutcomes)

\* an iteration during whose upstream call, if made, the task is cancelled
AttemptCancelled == AttemptOn({Cancelled})

\* async for chunk in adapter.stream_provider(...): yield chunk
YieldChunk ==
    /\ req.pc = "streaming"
    /\ Len(req.yielded) < MaxChunks
    /\ req' = [req EXCEPT !.yielded = Append(@, req.current)]
    /\ UNCHANGED <<healthVars, routingVars, lockVars, storeVars, parsed, upstream>>

\* the upstream stream ends: return
StreamEnd ==
    /\ req.pc = "streaming"
    /\ req' = [req EXCEPT !.pc = "done", !.status = 200]
    /\ UNCHANGED <<healthVars, routingVars, lockVars, storeVars, parsed, upstream>>

\* the upstream stream breaks: stream_provider raises inside the loop body
StreamFail(e) ==
    /\ req.pc = "streaming"
    /\ req' = HandleError([req EXCEPT !.broken = @ \/ req.yielded # <<>>], e)
    /\ UNCHANGED <<healthVars, routingVars, lockVars, storeVars, parsed, upstream>>

\* the consumer goes away while the generator is suspended at `yield chunk`
\* or awaits the next chunk: GeneratorExit or CancelledError is thrown in,
\* and neither is an Exception
StreamCancel ==
    /\ req.pc = "streaming"
    /\ LET r == [req EXCEPT !.cancelled = TRUE]
       IN req' = IF IsException(Cancelled) THEN HandleError(r, Cancelled)
                 ELSE Propagate(r)
    /\ UNCHANGED <<healthVars, routingVars, lockVars, storeVars, parsed, upstream>>

(***************************************************************************)
(* The HTTP endpoint POST /v1/chat/completions (api/routes/chat.py).       *)
(***************************************************************************)
\* get_default_route_id finds a route: the first active one; otherwise it
\* raises HTTPException(503)
HasDefaultRoute == route.name # "" /\ route.is_active

\* the status the endpoint answers with once the upstream has answered:
\* httpx.HTTPError becomes 502, any other exception is not caught
UpstreamStatus(outcome) ==
    IF outcome.kind = "ok" THEN 200
    ELSE IF outcome.kind = "exception" THEN 500
    ELSE 502

\* chat_completions, the whole handler: default route, selection with
\* request.model as the hint, health check of the provider, upstream call
ChatCompletions(model) ==
    LET r == [NewRequest(FALSE, model, 1) EXCEPT !.pc = "responded"]
    IN IF ~HasDefaultRoute
       THEN /\ req' = [r EXCEPT !.status = 503]
            /\ UNCHANGED <<healthVars, routingVars, lockVars, storeVars, parsed, upstream>>
       ELSE LET out == SelectOutcome(route, model, round_robin_indices)
                r1 == [r EXCEPT !.idle_selects = 1]
            IN /\ round_robin_indices' = out.indices
               /\ selectLog' = LogSelect(selectLog, model, out)
               /\ lastSelect' = [op |-> "select", model_hint |-> model,
                                 result |-> out.result, route |-> route,
                                 usable |-> {p \in Providers :
                                                /\ providers[p].is_active
                                                /\ providers[p].is_healthy}]
               /\ IF ~out.result.ok
                  THEN req' = [r1 EXCEPT !.status = 503]
                  ELSE IF ~providers[out.result.provider].is_healthy
                  THEN req' = [r1 EXCEPT !.status = 503,
                                         !.current = out.result.provider]
                  ELSE \E outcome \in UpstreamOutcomes :
                          req' = [r1 EXCEPT
                                    !.status = UpstreamStatus(outcome),
                                    !.current = out.result.provider,
                                    !.attempted_providers = {out.result.provider},
                                    !.calls = <<[provider |-> out.result.provider,
                                                 status |-> outcome.status]>>,
                                    !.idle_selects = 0]
               /\ UNCHANGED <<route, healthVars, lockVars, storeVars, parsed, upstream>>

(***************************************************************************)
(* The durable store (db/models.py) and the caller's Session               *)
(* (db/session.py).                                                        *)
(***************************************************************************)
\* a database without rows; a table is a function from ids to rows, and a
\* model_routes row carries its route_nodes in id order
EmptyStore == [external_apis |-> <<>>, model_routes |-> <<>>]

\* Integer primary key: the id given to the next row of the table
NextId(table) ==
    IF DOMAIN table = {} THEN 1
    ELSE (CHOOSE i \in DOMAIN table : \A j \in DOMAIN table : j <= i) + 1

\* session.add(row); session.flush()
Insert(table, row) ==
    [i \in DOMAIN table \cup {NextId(table)} |->
        IF i \in DOMAIN table THEN table[i] ELSE row]

\* session.delete(row)
Remove(table, id) == [i \in DOMAIN table \ {id} |-> table[i]]

\* order_by(id).all()
InIdOrder(table) ==
    LET ids == SelectSeq([i \in 1..(NextId(table) - 1) |-> i],
                         LAMBDA i : i \in DOMAIN table)
    IN [k \in 1..Len(ids) |-> table[ids[k]]]

\* filter(name == name).one_or_none(): the ids of the rows of that name
IdsNamed(table, name) == {i \in DOMAIN table : table[i].name = name}

\* name: unique=True, checked when the session is flushed
UniqueNames(table) ==
    \A i, j \in DOMAIN table : table[i].name = table[j].name => i = j

\* payload.name.strip()
Strip(name) == IF name = " " THEN "" ELSE name

\* ExternalAPI(name=payload.name.strip(), models=..., is_active=...)
ExternalAPI(payload) ==
    [name |-> Strip(payload.name)] @@ NewProvider(payload.is_active, payload.models)

\* relationship route_nodes, cascade="all, delete-orphan": the nodes of a
\* deleted provider go with it
CascadeNodes(routes, api_id) ==
    [r \in DOMAIN routes |->
        [routes[r] EXCEPT !.route_nodes =
            SelectSeq(@, LAMBDA node : node.api_id # api_id)]]

(***************************************************************************)
(* Backup file (services/backup.py): serialisation.                        *)
(***************************************************************************)
\* _serialize_provider, less the url, the key and the timestamps
SerializeProvider(provider) ==
    [name |-> provider.name, models |-> provider.models,
     is_active |-> provider.is_active, status |-> provider.status,
     latency_ms |-> provider.latency_ms,
     last_tested_at |-> provider.last_tested_at,
     consecutive_failures |-> provider.consecutive_failures,
     is_healthy |-> provider.is_healthy]

\* _serialize_route_node: the provider goes by name, "null" when node.api
\* is None
SerializeRouteNode(store, node) ==
    [api_name |-> IF node.api_id \in DOMAIN store.external_apis
                  THEN store.external_apis[node.api_id].name ELSE "null",
     models |-> node.models, strategy |-> node.strategy,
     priority |-> node.priority]

\* _serialize_route
SerializeRoute(store, rt) ==
    [name |-> rt.name, mode |-> rt.mode, config |-> rt.config,
     is_active |-> rt.is_active,
     nodes |-> [k \in 1..Len(rt.route_nodes) |->
                    SerializeRouteNode(store, rt.route_nodes[k])]]

\* the payload of write_backup, less generated_at
Payload(store) ==
    LET ps == InIdOrder(store.external_apis)
        rs == InIdOrder(store.model_routes)
    IN [providers |-> [k \in 1..Len(ps) |-> SerializeProvider(ps[k])],
        routes |-> [k \in 1..Len(rs) |-> SerializeRoute(store, rs[k])]]

\* json.dumps(payload): the text as the sequence of its parts, the opening
\* brace, one part per list item, the closing brace
JsonDumps(payload) ==
    <<[key |-> "{"]>>
    \o [k \in 1..Len(payload.providers) |->
            [key |-> "providers", value |-> payload.providers[k]]]
    \o [k \in 1..Len(payload.routes) |->
            [key |-> "routes", value |-> payload.routes[k]]]
    \o <<[key |-> "}"]>>

\* json.loads(text): JSONDecodeError unless the text is a whole document
JsonLoads(text) ==
    IF Len(text) >= 2 /\ text[1].key = "{" /\ text[Len(text)].key = "}"
    THEN LET items(key) == SelectSeq(text, LAMBDA part : part.key = key)
         IN [ok |-> TRUE,
             providers |-> [k \in 1..Len(items("providers")) |->
                                items("providers")[k].value],
             routes |-> [k \in 1..Len(items("routes")) |->
                                items("routes")[k].value]]
    ELSE [ok |-> FALSE]

NoFile == [exists |-> FALSE, text |-> <<>>]

\* backup_path.write_text(text): the file is opened for writing, which
\* empties it, and the text is written into it; a call that is interrupted
\* leaves the first `cut` parts
WriteText(text, cut) == [exists |-> TRUE, text |-> SubSeq(text, 1, cut)]

\* the number of parts in the file when write_text ends: all of them, or
\* at most MaxCut when it is interrupted
Cuts(text) == {cut \in 0..Len(text) : cut <= MaxCut \/ cut = Len(text)}

(***************************************************************************)
(* Backup file (services/backup.py): restore.                              *)
(***************************************************************************)
\* one pass of the loop over data["providers"]: the provider of that name
\* is created or overwritten, and counted either way
RestoreProvider(r, item) ==
    IF item.name = "" THEN r
    ELSE LET found == IdsNamed(r.store.external_apis, item.name)
             row == [name |-> item.name, models |-> item.models,
                     is_active |-> item.is_active, status |-> item.status,
                     latency_ms |-> item.latency_ms,
                     last_tested_at |-> item.last_tested_at,
                     consecutive_failures |-> item.consecutive_failures,
                     is_healthy |-> item.is_healthy]
             id == IF found = {} THEN NextId(r.store.external_apis)
                   ELSE CHOOSE i \in found : TRUE
         IN [store |-> [r.store EXCEPT !.external_apis =
                            IF found = {} THEN Insert(@, row)
                            ELSE [@ EXCEPT ![id] = row]],
             provider_name_map |-> (item.name :> id) @@ r.provider_name_map,
             restored |-> [r.restored EXCEPT !.providers = @ + 1]]

\* one pass of the loop over data["routes"]: the route of that name is
\* created or overwritten, its nodes are replaced by those of the item whose
\* provider was restored
RestoreRoute(r, item) ==
    IF item.name = "" THEN r
    ELSE LET found == IdsNamed(r.store.model_routes, item.name)
             kept == SelectSeq(item.nodes,
                        LAMBDA node_item :
                            /\ node_item.api_name \notin {"null", ""}
                            /\ node_item.api_name \in DOMAIN r.provider_name_map)
             row == [name |-> item.name, mode |-> item.mode,
                     is_active |-> item.is_active, config |-> item.config,
                     route_nodes |->
                        [k \in 1..Len(kept) |->
                            [api_id |-> r.provider_name_map[kept[k].api_name],
                             models |-> kept[k].models,
                             strategy |-> kept[k].strategy,
                             priority |-> kept[k].priority]]]
             id == IF found = {} THEN NextId(r.store.model_routes)
                   ELSE CHOOSE i \in found : TRUE
         IN [r EXCEPT !.store.model_routes =
                            IF found = {} THEN Insert(@, row)
                            ELSE [@ EXCEPT ![id] = row],
                      !.restored.routes = @ + 1]

RECURSIVE RestoreItems(_, _, _)
\* for item in items: the passes of one loop, in the order of the file
RestoreItems(items, r, routes) ==
    IF items = <<>> THEN r
    ELSE RestoreItems(Tail(items),
                      IF routes THEN RestoreRoute(r, Head(items))
                      ELSE RestoreProvider(r, Head(items)),
                      routes)

\* mutant of Restore: the routes are restored before the providers
Restore_RoutesFirst(store, data) ==
    LET start == [store |-> store, provider_name_map |-> [n \in {} |-> 0],
                  restored |-> [providers |-> 0, routes |-> 0]]
    IN RestoreItems(data.providers, RestoreItems(data.routes, start, TRUE), FALSE)

\* restore_from_backup up to its commit: the tables it leaves in the session
\* and the counts it returns
Restore(store, data) ==
    LET start == [store |-> store, provider_name_map |-> [n \in {} |-> 0],
                  restored |-> [providers |-> 0, routes |-> 0]]
    IN RestoreItems(data.routes, RestoreItems(data.providers, start, FALSE), TRUE)

(***************************************************************************)
(* Calls on the store: how they end.                                       *)
(***************************************************************************)
\* history: a call and how it ended: "returned", "raised", or "interrupted"
\* when the process was stopped in it
Call(op, outcome) ==
    [op |-> op, outcome |-> outcome, restored |-> [providers |-> 0, routes |-> 0]]

\* the providers and routes of a store by name, ids left out
ByName(store) ==
    LET payload == Payload(store)
    IN [providers |-> {payload.providers[k] : k \in 1..Len(payload.providers)},
        routes |-> {payload.routes[k] : k \in 1..Len(payload.routes)}]

\* the call raises and leaves the tables `left` in the session: the session
\* as it was when nothing was changed, the changes made so far when the
\* call does not roll back, db after session.rollback()
Raised(op, left) ==
    /\ session' = left
    /\ lastCall' = Call(op, "raised")
    /\ UNCHANGED <<db, backup_file, written>>

\* session.commit() of the routing service: no backup follows
Commit(op, unit) ==
    /\ db' = unit
    /\ session' = unit
    /\ written' = FALSE
    /\ lastCall' = Call(op, "returned")
    /\ UNCHANGED backup_file

\* session.commit(); write_backup(session): the write is whole or is
\* interrupted after any number of parts, and the call returns when it is whole
CommitAndBackup(op, unit) ==
    LET text == JsonDumps(Payload(unit))
    IN \E cut \in Cuts(text) :
        /\ db' = unit
        /\ session' = unit
        /\ backup_file' = WriteText(text, cut)
        /\ written' = (cut = Len(text))
        /\ lastCall' = Call(op, IF cut = Len(text) THEN "returned" ELSE "interrupted")

(***************************************************************************)
(* Provider service (services/providers.py).                               *)
(***************************************************************************)
CreateProvider(payload) ==
    LET unit == [session EXCEPT !.external_apis = Insert(@, ExternalAPI(payload))]
    IN /\ NextId(session.external_apis) <= MaxId
       /\ IF UniqueNames(unit.external_apis)
          THEN CommitAndBackup("create_provider", unit)
          ELSE Raised("create_provider", db)
       /\ UNCHANGED <<healthVars, routingVars, lockVars, chatVars>>

UpdateProvider(provider_id, update_data) ==
    /\ IF provider_id \notin DOMAIN session.external_apis
       THEN Raised("update_provider", session)
       ELSE LET unit == [session EXCEPT
                    !.external_apis[provider_id].name =
                        IF "name" \in DOMAIN update_data
                        THEN Strip(update_data.name) ELSE @,
                    !.external_apis[provider_id].models =
                        IF "models" \in DOMAIN update_data
                        THEN update_data.models ELSE @,
                    !.external_apis[provider_id].is_active =
                        IF "is_active" \in DOMAIN update_data
                        THEN update_data.is_active ELSE @]
            IN IF UniqueNames(unit.external_apis)
               THEN CommitAndBackup("update_provider", unit)
               ELSE Raised("update_provider", db)
    /\ UNCHANGED <<healthVars, routingVars, lockVars, chatVars>>

DeleteProvider(provider_id) ==
    /\ IF provider_id \notin DOMAIN session.external_apis
       THEN Raised("delete_provider", session)
       ELSE CommitAndBackup("delete_provider",
                [external_apis |-> Remove(session.external_apis, provider_id),
                 model_routes |-> CascadeNodes(session.model_routes, provider_id)])
    /\ UNCHANGED <<healthVars, routingVars, lockVars, chatVars>>

(***************************************************************************)
(* Routing service (services/routing.py): routes created, updated and      *)
(* deleted.                                                                *)
(***************************************************************************)
\* _validate_providers_exist
ValidateProvidersExistIn(store, nodes) ==
    \A k \in 1..Len(nodes) : nodes[k].api_id \in DOMAIN store.external_apis

\* _validate_models_exist against the rows of the session
ValidateModelsExistIn(store, api_id, models) ==
    \/ models = <<>>
    \/ /\ api_id \in DOMAIN store.external_apis
       /\ \A k \in 1..Len(models) :
            Contains(store.external_apis[api_id].models, models[k])

\* the nodes whose models the provider does not offer
BadNodes(store, nodes) ==
    {k \in 1..Len(nodes) :
        ~ValidateModelsExistIn(store, nodes[k].api_id, nodes[k].models)}

\* for node_payload in payload.nodes: the nodes added to the session, all of
\* them or those before the first one that is refused
NodesAdded(store, nodes) ==
    LET bad == BadNodes(store, nodes)
    IN IF bad = {} THEN nodes
       ELSE SubSeq(nodes, 1, (CHOOSE k \in bad : \A j \in bad : k <= j) - 1)

\* the validation of the config in create_route
CreateConfigValid(store, payload) ==
    LET selected_models == payload.config.selectedModels
    IN CASE payload.mode = "auto" ->
                (payload.config.providerMode # "all" /\ selected_models # <<>>)
                    => ValidateModelsExistIn(store,
                            ProviderIdOf(payload.config.providerMode), selected_models)
         [] payload.mode = "specific" ->
                (selected_models # <<>> /\ payload.nodes # <<>>)
                    => ValidateModelsExistIn(store, payload.nodes[1].api_id,
                                             selected_models)
         [] OTHER -> TRUE

\* the validation of the config in update_route
UpdateConfigValid(store, rt) ==
    LET selected_models == rt.config.selectedModels
        active == {p \in DOMAIN store.external_apis : store.external_apis[p].is_active}
    IN (rt.mode = "auto" /\ selected_models # <<>>)
        => IF rt.config.providerMode = "all"
           THEN /\ active # {}
                /\ \A k \in 1..Len(selected_models) :
                     \E p \in active :
                        Contains(store.external_apis[p].models, selected_models[k])
           ELSE ValidateModelsExistIn(store, ProviderIdOf(rt.config.providerMode),
                                      selected_models)

CreateRoute(payload) ==
    LET flushed == [session EXCEPT !.model_routes =
                        Insert(@, [name |-> payload.name, mode |-> payload.mode,
                                   is_active |-> payload.is_active,
                                   config |-> payload.config, route_nodes |-> <<>>])]
        route_id == NextId(session.model_routes)
        added == [flushed EXCEPT !.model_routes[route_id].route_nodes =
                    NodesAdded(session, payload.nodes)]
    IN /\ route_id <= MaxId
       /\ IF IdsNamed(session.model_routes, payload.name) # {}
          THEN Raised("create_route", session)
          ELSE IF ~CreateConfigValid(session, payload)
                  \/ ~ValidateProvidersExistIn(session, payload.nodes)
          THEN Raised("create_route", flushed)
          ELSE IF BadNodes(session, payload.nodes) # {}
          THEN Raised("create_route", added)
          ELSE Commit("create_route", added)
       /\ UNCHANGED <<healthVars, routingVars, lockVars, chatVars>>

UpdateRoute(route_id, update_data) ==
    /\ IF route_id \notin DOMAIN session.model_routes
       THEN Raised("update_route", session)
       ELSE LET dirty == [session EXCEPT !.model_routes[route_id].is_active =
                            IF "is_active" \in DOMAIN update_data
                            THEN update_data.is_active ELSE @]
                nodes == update_data.nodes
                deleted == [dirty EXCEPT !.model_routes[route_id].route_nodes = <<>>]
                added == [dirty EXCEPT !.model_routes[route_id].route_nodes =
                            NodesAdded(session, nodes)]
            IN IF ~UpdateConfigValid(session, dirty.model_routes[route_id])
               THEN Raised("update_route", dirty)
               ELSE IF "nodes" \notin DOMAIN update_data
               THEN Commit("update_route", dirty)
               ELSE IF ~ValidateProvidersExistIn(session, nodes)
               THEN Raised("update_route", deleted)
               ELSE IF BadNodes(session, nodes) # {}
               THEN Raised("update_route", added)
               ELSE Commit("update_route", added)
    /\ UNCHANGED <<healthVars, routingVars, lockVars, chatVars>>

DeleteRoute(route_id) ==
    /\ IF route_id \notin DOMAIN session.model_routes
       THEN Raised("delete_route", session) /\ UNCHANGED round_robin_indices
       ELSE /\ round_robin_indices' = ResetState(round_robin_indices, route_id)
            /\ Commit("delete_route",
                      [session EXCEPT !.model_routes = Remove(@, route_id)])
    /\ UNCHANGED <<route, selectLog, lastSelect, healthVars, lockVars, chatVars>>

(***************************************************************************)
(* Restore, the end of a session, and the loss of rows.                    *)
(***************************************************************************)
RestoreFromBackup ==
    /\ IF ~backup_file.exists \/ ~JsonLoads(backup_file.text).ok
       THEN Raised("restore_from_backup", session)
       ELSE LET r == Restore(session, JsonLoads(backup_file.text))
                text == JsonDumps(Payload(r.store))
            IN /\ \A id \in DOMAIN r.store.external_apis \cup DOMAIN r.store.model_routes :
                    id <= MaxId
               /\ \E cut \in Cuts(text) :
                    /\ db' = r.store
                    /\ session' = r.store
                    /\ backup_file' = WriteText(text, cut)
                    /\ written' = (cut = Len(text))
                    /\ lastCall' = [op |-> "restore_from_backup",
                                    outcome |-> IF cut = Len(text) THEN "returned"
                                                ELSE "interrupted",
                                    restored |-> r.restored]
    /\ UNCHANGED <<healthVars, routingVars, lockVars, chatVars>>

\* get_db: finally db.close(), which drops what the session did not commit
CloseSession ==
    /\ session # db
    /\ session' = db
    /\ UNCHANGED <<db, backup_file, written, lastCall>>
    /\ UNCHANGED <<healthVars, routingVars, lockVars, chatVars>>

\* rows of the database are lost while the backup file is kept: one
\* provider row, one route row or the nodes of one route
LoseData ==
    /\ \E left \in
            {[db EXCEPT !.external_apis = Remove(@, p)] : p \in DOMAIN db.external_apis}
            \cup {[db EXCEPT !.model_routes = Remove(@, r)] : r \in DOMAIN db.model_routes}
            \cup {[db EXCEPT !.model_routes[r].route_nodes = <<>>] :
                    r \in {x \in DOMAIN db.model_routes :
                                db.model_routes[x].route_nodes # <<>>}} :
          db' = left /\ session' = left
    /\ lastCall' = Call("lose_data", "returned")
    /\ UNCHANGED <<backup_file, written>>
    /\ UNCHANGED <<healthVars, routingVars, lockVars, chatVars>>

\* a database without rows and without backup file
InitStore ==
    /\ db = EmptyStore
    /\ session = EmptyStore
    /\ backup_file = NoFile
    /\ written = FALSE
    /\ lastCall = Call("none", "returned")

(***************************************************************************)
(* Specifications of the routing engine.                                   *)
(***************************************************************************)
\* the models column of the providers (ExternalAPICreate: at least one model)
ProviderModels(p) == IF p % 2 = 1 THEN <<"m1", "m2">> ELSE <<"m2">>

\* the lists of models a node or a config carries
ModelChoices == {<<>>, <<"m2">>}

\* _validate_models_exist
ValidateModelsExist(p, models) ==
    \A i \in 1..Len(models) : Contains(ProviderModels(p), models[i])

NodeLists ==
    {<<>>}
    \cup {<<RouteNode(p, ms, st, 0)>> :
            p \in Providers, ms \in ModelChoices, st \in Strategies}
    \cup {<<RouteNode(1, <<>>, st[1], pr[1]), RouteNode(2, <<>>, st[2], pr[2])>> :
            st \in [1..2 -> Strategies], pr \in {<<0, 1>>, <<1, 0>>, <<0, 0>>}}

ProviderModes == {"all"} \cup {ProviderMode(p) : p \in Providers}

\* the routes create_route accepts, up to the fields the mode ignores
RouteConfigs ==
    {rt \in
        {ModelRoute("auto", a, pm, sm, <<>>) :
            a \in BOOLEAN, pm \in ProviderModes, sm \in ModelChoices}
        \cup {ModelRoute("specific", a, "all", sm, ns) :
            a \in BOOLEAN, sm \in ModelChoices, ns \in NodeLists}
        \cup {ModelRoute("multi", a, "all", <<>>, ns) :
            a \in BOOLEAN, ns \in NodeLists} :
        /\ (rt.mode = "auto" /\ rt.config.providerMode # "all")
              => ValidateModelsExist(ProviderIdOf(rt.config.providerMode),
                                     rt.config.selectedModels)
        /\ (rt.mode = "specific" /\ rt.route_nodes # <<>>)
              => ValidateModelsExist(rt.route_nodes[1].api_id, rt.config.selectedModels)
        /\ \A i \in 1..Len(rt.route_nodes) :
              ValidateModelsExist(rt.route_nodes[i].api_id, rt.route_nodes[i].models)}

NoRoute == ModelRoute("auto", FALSE, "all", <<>>, <<>>)

Threads == 1..NumThreads

InitRouting ==
    /\ round_robin_indices = NoCursors
    /\ selectLog = EmptyLog
    /\ lastSelect = NoSelect

InitLock ==
    /\ threads = [t \in Threads |-> IdleThread]
    /\ state_lock = {}
    /\ keyLog = [k \in {NodeKey, ProviderKey} |-> EmptyLog]

InitChat == req = NoRequest /\ parsed = NoParse /\ upstream = NoStream

InitProviders ==
    /\ providers = [p \in Providers |-> NewProvider(TRUE, ProviderModels(p))]
    /\ sweep = IdleSweep
    /\ InitHealthHist

InitSelect ==
    /\ \E active \in [Providers -> BOOLEAN] :
          providers = [p \in Providers |-> NewProvider(active[p], ProviderModels(p))]
    /\ sweep = IdleSweep
    /\ InitHealthHist
    /\ route \in RouteConfigs
    /\ InitRouting
    /\ InitLock
    /\ InitChat
    /\ InitStore

NextSelect ==
    \/ \E model_hint \in Hints : SelectProviderAndModel(model_hint)
    \/ \E delete \in BOOLEAN : ResetRouteState(delete)
    \/ \E p \in Providers, healthy \in BOOLEAN : SetProviderHealth(p, healthy)

SpecSelect == InitSelect /\ [][NextSelect]_vars

\* auto routes that carry nodes, as POST /api/model-routes accepts them
InitAutoNodes ==
    /\ \E active \in [Providers -> BOOLEAN] :
          providers = [p \in Providers |-> NewProvider(active[p], ProviderModels(p))]
    /\ sweep = IdleSweep
    /\ InitHealthHist
    /\ route \in {ModelRoute("auto", TRUE, pm, <<>>, ns) :
                    pm \in ProviderModes, ns \in NodeLists \ {<<>>}}
    /\ InitRouting
    /\ InitLock
    /\ InitChat
    /\ InitStore

SpecAutoNodes == InitAutoNodes /\ [][NextSelect]_vars

\* auto routes over all providers whose config lists a model that not every
\* provider offers: create_route validates selectedModels only against a
\* provider the config names, update_route against the union of the models
InitAutoConfig ==
    /\ \E active \in [Providers -> BOOLEAN] :
          providers = [p \in Providers |-> NewProvider(active[p], ProviderModels(p))]
    /\ sweep = IdleSweep
    /\ InitHealthHist
    /\ route \in {ModelRoute("auto", TRUE, "all", sm, <<>>) :
                    sm \in {<<"m1">>, <<"m1", "m2">>, <<"m2", "m1">>}}
    /\ InitRouting
    /\ InitLock
    /\ InitChat
    /\ InitStore

SpecAutoConfig == InitAutoConfig /\ [][NextSelect]_vars

\* the routes on which a selection rotates a cursor
InitLockRoute ==
    /\ InitProviders
    /\ route \in {rt \in RouteConfigs :
                    /\ rt.is_active
                    /\ \/ rt.mode = "auto" /\ rt.config.providerMode = "all"
                       \/ /\ rt.mode = "multi"
                          /\ \E i \in 1..Len(rt.route_nodes) :
                                rt.route_nodes[i].strategy = "round-robin"}
    /\ InitRouting
    /\ InitLock
    /\ InitChat
    /\ InitStore

NextLock ==
    \/ \E t \in Threads, model_hint \in Hints : SelectBegin(t, model_hint)
    \/ \E t \in Threads : AcquireAndRead(t)
    \/ \E t \in Threads : WriteAndRelease(t)
    \/ \E p \in Probed, healthy \in BOOLEAN : SetProviderHealth(p, healthy)

SpecLock == InitLockRoute /\ [][NextLock]_vars

(***************************************************************************)
(* Specification of the chat-completion pipeline.                          *)
(***************************************************************************)
InitPipeline ==
    /\ InitProviders
    /\ route \in RouteConfigs
    /\ InitRouting
    /\ InitLock
    /\ InitChat
    /\ InitStore

NextPipeline ==
    \/ \E stream \in BOOLEAN, route_name \in RouteNames, model \in RequestModels,
          max_retries \in 1..MaxRetries :
            StartRequest(stream, route_name, model, max_retries)
    \/ Attempt
    \/ Return
    \/ YieldChunk
    \/ StreamEnd
    \/ \E e \in StreamFailures : StreamFail(e)
    \/ \E p \in Probed, healthy \in BOOLEAN : SetProviderHealth(p, healthy)

SpecPipeline == InitPipeline /\ [][NextPipeline]_vars

\* the pipeline with clients that may disconnect
NextCancel ==
    \/ \E stream \in BOOLEAN, route_name \in RouteNames, model \in RequestModels,
          max_retries \in 1..MaxRetries :
            StartRequest(stream, route_name, model, max_retries)
    \/ Attempt
    \/ AttemptCancelled
    \/ Return
    \/ YieldChunk
    \/ StreamEnd
    \/ StreamCancel
    \/ \E e \in StreamFailures : StreamFail(e)

SpecCancel == InitPipeline /\ [][NextCancel]_vars

\* routes of every mode: a pool to rotate over, a single provider, nodes of
\* either strategy, and a route that is not active
RetryRoutes ==
    {ModelRoute("auto", TRUE, "all", <<>>, <<>>),
     ModelRoute("auto", TRUE, ProviderMode(1), <<"m2">>, <<>>),
     ModelRoute("auto", FALSE, "all", <<>>, <<>>),
     ModelRoute("specific", TRUE, "all", <<>>, <<RouteNode(1, <<>>, "round-robin", 0)>>)}
    \cup {ModelRoute("multi", TRUE, "all", <<>>,
                     <<RouteNode(1, <<>>, st, 0), RouteNode(2, <<>>, st, 1)>>) :
            st \in Strategies}

InitRetry ==
    /\ InitProviders
    /\ route \in RetryRoutes
    /\ InitRouting
    /\ InitLock
    /\ InitChat
    /\ InitStore

\* the pipeline on its own: the event loop resumes the call, and an upstream
\* stream that does not break comes to its end (httpx times a silent one out)
NextRetry ==
    \/ \E stream \in BOOLEAN, route_name \in RouteNames, model \in RequestModels,
          max_retries \in 1..MaxRetries :
            StartRequest(stream, route_name, model, max_retries)
    \/ Attempt
    \/ Return
    \/ YieldChunk
    \/ StreamEnd
    \/ \E e \in StreamFailures : StreamFail(e)

SpecRetry ==
    /\ InitRetry
    /\ [][NextRetry]_vars
    /\ WF_vars(Attempt)
    /\ WF_vars(StreamEnd)

\* the HTTP endpoint on every route, with the operator's overrides
NextEndpoint ==
    \/ \E model \in RequestModels : ChatCompletions(model)
    \/ \E p \in Probed, healthy \in BOOLEAN : SetProviderHealth(p, healthy)

SpecEndpoint == InitPipeline /\ [][NextEndpoint]_vars

(***************************************************************************)
(* Specification of the health subsystem.                                  *)
(***************************************************************************)
InitHealth ==
    /\ providers = [p \in Providers |-> NewProvider(p \in Probed, ProviderModels(p))]
    /\ sweep = IdleSweep
    /\ InitHealthHist
    /\ route = NoRoute
    /\ InitRouting
    /\ InitLock
    /\ InitChat
    /\ InitStore

NextHealth ==
    \/ SweepStart
    \/ SweepCommit
    \/ \E p \in Probed, healthy \in BOOLEAN : SetProviderHealth(p, healthy)

SpecHealth == InitHealth /\ [][NextHealth]_vars

\* the sweeps of a store in which a key may fail to decrypt
NextSweep ==
    \/ SweepStart
    \/ SweepCommitAny
    \/ \E p \in Probed, healthy \in BOOLEAN : SetProviderHealth(p, healthy)

SpecSweep == InitHealth /\ [][NextSweep]_vars

\* the life of the background task, from startup to shutdown
InitLoop ==
    /\ providers = [p \in Providers |-> NewProvider(p \in Probed, ProviderModels(p))]
    /\ sweep = IdleSweep
    /\ checker \in {NewChecker(enabled) : enabled \in BOOLEAN}
    /\ lastProbe = [p \in Providers |-> "none"]
    /\ healthSetBy = [p \in Providers |-> "default"]
    /\ streak = [p \in Providers |-> 0]
    /\ route = NoRoute
    /\ InitRouting
    /\ InitLock
    /\ InitChat
    /\ InitStore

NextLoop ==
    \/ Start
    \/ LoopTest
    \/ LoopRunChecks
    \/ LoopWait
    \/ Stop
    \/ StopReturn
    \/ StopTimeout

\* the event loop runs a task that can run, and a timer that was set expires
SpecLoop ==
    /\ InitLoop
    /\ [][NextLoop]_vars
    /\ WF_vars(LoopTest) /\ WF_vars(LoopRunChecks) /\ WF_vars(LoopWait)
    /\ WF_vars(StopReturn)

\* the adapters on every upstream body
NextAdapters ==
    \/ \E response_data \in AnthropicResponses : ParseAnthropic(response_data)
    \/ \E response_data \in GeminiResponses : ParseGemini(response_data)

SpecAdapters == InitHealth /\ [][NextAdapters]_vars

\* stream_provider on every upstream body and every way of reading it
InitStream ==
    /\ InitProviders
    /\ InitHealthHist
    /\ InitRouting /\ route = NoRoute
    /\ InitLock
    /\ req = NoRequest /\ parsed = NoParse
    /\ upstream \in {NewStream(adapter, sent, done) :
                      adapter \in StreamAdapters,
                      sent \in UNION {[1..n -> Payloads] : n \in 0..MaxFrames},
                      done \in BOOLEAN}
    /\ InitStore

NextStream == StreamProviderRead \/ StreamProviderEnd

SpecStream == InitStream /\ [][NextStream]_vars

NextHealthTest ==
    \/ NextHealth
    \/ \E p \in Probed, outcome \in TestOutcomes : TestProviderConnectivity(p, outcome)

SpecHealthTest == InitHealth /\ [][NextHealthTest]_vars

(***************************************************************************)
(* Specification of the store, its backup and its restore.                 *)
(***************************************************************************)
\* the payloads of the provider endpoints; " " is a name of one character
ProviderPayloads ==
    {[name |-> n, is_active |-> TRUE, models |-> <<"m1", "m2">>] : n \in {"X", " "}}

ProviderUpdates == {[name |-> "X"], [name |-> " ", is_active |-> TRUE]}

\* the node lists of the payloads; no provider offers "m3"
StoreNodeLists ==
    {<<>>,
     <<RouteNode(2, <<>>, "round-robin", 1), RouteNode(1, <<"m2">>, "failover", 0)>>,
     <<RouteNode(1, <<"m1">>, "failover", 0), RouteNode(1, <<"m3">>, "failover", 1)>>}

RoutePayloads ==
    {[name |-> "r1", mode |-> "multi", is_active |-> TRUE,
      config |-> [providerMode |-> "all", selectedModels |-> <<>>],
      nodes |-> ns] : ns \in StoreNodeLists}
    \cup {[name |-> "r1", mode |-> "auto", is_active |-> TRUE,
            config |-> [providerMode |-> ProviderMode(1), selectedModels |-> <<"m1">>],
            nodes |-> <<>>]}

RouteUpdates ==
    {[is_active |-> FALSE]} \cup {[nodes |-> ns] : ns \in StoreNodeLists \ {<<>>}}

\* the stores at the start: an empty one without backup file, and one whose
\* only provider was found down failure_threshold times by the sweep, which
\* committed and backed it up
InitBackup ==
    /\ InitProviders
    /\ route = NoRoute
    /\ InitRouting
    /\ InitLock
    /\ InitChat
    /\ \/ InitStore
       \/ LET down == [ExternalAPI([name |-> "X", is_active |-> TRUE,
                                    models |-> <<"m1", "m2">>])
                            EXCEPT !.status = "unreachable",
                                   !.last_tested_at = "now",
                                   !.consecutive_failures = failure_threshold,
                                   !.is_healthy = HealthyAfterFailure(failure_threshold)]
              store == [EmptyStore EXCEPT !.external_apis = Insert(@, down)]
              text == JsonDumps(Payload(store))
          IN /\ db = store
             /\ session = store
             /\ backup_file = WriteText(text, Len(text))
             /\ written = TRUE
             /\ lastCall = Call("none", "returned")

NextBackup ==
    \/ \E payload \in ProviderPayloads : CreateProvider(payload)
    \/ \E provider_id \in 1..MaxId, update_data \in ProviderUpdates :
            UpdateProvider(provider_id, update_data)
    \/ \E provider_id \in 1..MaxId : DeleteProvider(provider_id)
    \/ \E payload \in RoutePayloads : CreateRoute(payload)
    \/ \E route_id \in 1..MaxId, update_data \in RouteUpdates :
            UpdateRoute(route_id, update_data)
    \/ \E route_id \in 1..MaxId : DeleteRoute(route_id)
    \/ RestoreFromBackup
    \/ CloseSession
    \/ LoseData

SpecBackup == InitBackup /\ [][NextBackup]_vars

\* the store under the calls that bear on the validity of routes: a provider
\* gives up a model, and a route names a model that no provider offers
NextIntegrity ==
    \/ \E payload \in ProviderPayloads : CreateProvider(payload)
    \/ \E provider_id \in 1..MaxId : UpdateProvider(provider_id, [models |-> <<"m1">>])
    \/ \E provider_id \in 1..MaxId : DeleteProvider(provider_id)
    \/ \E payload \in RoutePayloads : CreateRoute(payload)
    \/ \E payload \in RoutePayloads :
            CreateRoute([payload EXCEPT !.config.providerMode = "all",
                                        !.config.selectedModels = <<"m3">>])
    \/ \E route_id \in 1..MaxId, update_data \in RouteUpdates :
            UpdateRoute(route_id, update_data)
    \/ RestoreFromBackup
    \/ CloseSession

SpecIntegrity == InitBackup /\ [][NextIntegrity]_vars

\* a store whose providers bear the names, in id order, and whose routes are
\* none or the multi route "r1" with one of the node lists
StoresOf(nameLists) ==
    {[external_apis |->
        [k \in 1..Len(names) |->
            ExternalAPI([name |-> names[k], is_active |-> TRUE,
                         models |-> <<"m1", "m2">>])],
      model_routes |-> routes] :
        names \in nameLists,
        routes \in {<<>>} \cup
            {<<[name |-> "r1", mode |-> "multi", is_active |-> TRUE,
                config |-> [providerMode |-> "all", selectedModels |-> <<>>],
                route_nodes |-> ns]>> : ns \in StoreNodeLists}}

\* the snapshots a backup file holds: the payload of a store, whole or less
\* its first provider, so that a node may name a provider that is not in it
Snapshots ==
    LET payloads == {Payload(store) :
                        store \in StoresOf({<<>>, <<"X">>, <<"Y", "X">>, <<"X", " ">>})}
    IN payloads \cup {[payload EXCEPT !.providers = Tail(@)] :
                        payload \in {x \in payloads : x.providers # <<>>}}

\* a database the calls can leave and a backup file with any snapshot
InitRestore ==
    /\ InitProviders
    /\ route = NoRoute
    /\ InitRouting
    /\ InitLock
    /\ InitChat
    /\ \E store \in StoresOf({<<>>, <<"X">>, <<"Y">>, <<"X", "Y">>}),
          payload \in Snapshots :
            /\ \A r \in DOMAIN store.model_routes :
                  ValidateProvidersExistIn(store, store.model_routes[r].route_nodes)
                  /\ BadNodes(store, store.model_routes[r].route_nodes) = {}
            /\ db = store
            /\ session = store
            /\ backup_file = WriteText(JsonDumps(payload), Len(JsonDumps(payload)))
            /\ written = FALSE
            /\ lastCall = Call("none", "returned")

NextRestore == RestoreFromBackup

SpecRestore == InitRestore /\ [][NextRestore]_vars

(***************************************************************************)
(* Routing claims.                                                         *)
(***************************************************************************)
\* C1: on an auto route with providerMode=all, successive successful
\* selections without a hint over an unchanged pool of k providers, no other
\* selection coming in between, return k distinct providers in any k
\* consecutive calls, and the i-th and the (i+k)-th call return the same one
C1_RoundRobinCycle ==
    LET k == Len(selectLog.cand)
        picks == selectLog.picks
    IN \A i, j \in 1..Len(picks) :
          i < j => /\ (j - i < k => picks[i] # picks[j])
                   /\ (j - i = k => picks[i] = picks[j])

\* C1 witness: k + 1 such calls in a row over the pool of all providers
C1_Witness ==
    /\ route.mode = "auto" /\ route.config.providerMode = "all"
    /\ Len(selectLog.cand) = NumProviders
    /\ Len(selectLog.picks) = NumProviders + 1

\* a thread that has read a cursor and not yet written it back holds the
\* cursor's present value
C2_NoLostUpdate ==
    \A t \in Threads :
        threads[t].pc = "write" =>
            threads[t].current_index = CursorOf(round_robin_indices, threads[t].key)

\* in lock order, any k consecutive picks on one cursor key over the same k
\* candidates are distinct
C2_PicksDistinct ==
    \A key \in DOMAIN keyLog :
        LET k == Len(keyLog[key].cand)
            picks == keyLog[key].picks
        IN \A i, j \in 1..Len(picks) : (i < j /\ j - i < k) => picks[i] # picks[j]

\* C2: concurrent selections on the same cursor key read and write the
\* cursor under the lock, so no update is lost and k consecutive picks in
\* lock order are distinct
C2_LockedRotation == C2_NoLostUpdate /\ C2_PicksDistinct

\* C2 witness: a thread holds the lock between its read and its write while
\* another thread waits for the lock with the same key, after a full
\* rotation over all providers has been logged
C2_Witness ==
    \E t, u \in Threads :
        /\ t # u
        /\ threads[t].pc = "write" /\ threads[u].pc = "acquire"
        /\ threads[t].key = ProviderKey /\ threads[u].key = ProviderKey
        /\ Len(keyLog[ProviderKey].cand) = NumProviders
        /\ Len(keyLog[ProviderKey].picks) >= NumProviders

(***************************************************************************)
(* Pipeline claims.                                                        *)
(***************************************************************************)
\* C3: within one call of process_chat_completion or stream_chat_completion
\* every provider receives at most one upstream call
C3_AtMostOneCallPerProvider ==
    \A i, j \in 1..Len(req.calls) :
        i < j => req.calls[i].provider # req.calls[j].provider

\* C3 witness: the selection returned a provider that had been called
\* before in the same call, and the iteration was skipped
C3_Witness == req.skipped /\ Len(req.calls) = 1 /\ req.pc = "done"

\* C4: an upstream answer with a 4xx status s ends the call at once with
\* status s: it is the last upstream call and no selection follows it
C4_ClientErrorEndsCall ==
    \A i \in 1..Len(req.calls) :
        (req.calls[i].status >= 400 /\ req.calls[i].status < 500) =>
            /\ i = Len(req.calls)
            /\ req.pc = "done"
            /\ req.status = req.calls[i].status
            /\ req.idle_selects = 0

\* C4 witness: a second provider, tried after a first one failed with 503,
\* answered 400 and the call ended with 400
C4_Witness ==
    /\ Len(req.calls) = 2
    /\ req.calls[1].status = 503 /\ req.calls[2].status = 400
    /\ req.pc = "done" /\ req.status = 400

\* no operator override has happened: the providers are as created, all
\* active and healthy
PoolUntouched == \A p \in Providers : healthSetBy[p] = "default" /\ Usable(p)

\* C5 (as claimed): with N active and healthy providers that all answer
\* 5xx, a non-streaming call with max_retries = N makes exactly N upstream
\* calls, one to each provider, and then fails with status 502
C5_AllFailGives502 ==
    ( /\ req.pc = "done" /\ ~req.stream
      /\ route.mode = "auto" /\ route.config.providerMode = "all"
      /\ req.model_hint = ""
      /\ PoolUntouched
      /\ req.max_retries = NumProviders
      /\ req.calls # <<>>
      /\ \A i \in 1..Len(req.calls) :
            req.calls[i].status >= 500 /\ req.calls[i].status < 600 )
    => /\ Len(req.calls) = NumProviders
       /\ {req.calls[i].provider : i \in 1..Len(req.calls)} = Providers
       /\ req.status = 502

\* C6 (as claimed): on a multi route with two failover nodes, P1 at
\* priority 0 and P2 at priority 1, P1 answering 503 and P2 answering 200,
\* a call with max_retries >= 2 returns P2's response after exactly two
\* upstream calls
C6_FailoverToSecondNode ==
    ( /\ req.pc = "done" /\ ~req.stream
      /\ route.mode = "multi"
      /\ route.route_nodes = <<RouteNode(1, <<>>, "failover", 0),
                               RouteNode(2, <<>>, "failover", 1)>>
      /\ req.model_hint = ""
      /\ PoolUntouched
      /\ req.max_retries >= 2
      /\ req.calls # <<>>
      /\ \A i \in 1..Len(req.calls) :
            /\ req.calls[i].provider = 1 => req.calls[i].status = 503
            /\ req.calls[i].provider = 2 => req.calls[i].status = 200 )
    => /\ req.status = 200
       /\ req.current = 2
       /\ Len(req.calls) = 2

\* C7 (as claimed): once a streaming call has yielded a chunk it is
\* committed to that provider: every chunk comes from it, no selection is
\* made afterwards, and a later failure of the stream ends the call with an
\* error
C7_StreamCommitted ==
    req.yielded # <<>> =>
        /\ \A i \in 1..Len(req.yielded) : req.yielded[i] = req.yielded[1]
        /\ ~req.late_select
        /\ req.broken => (req.pc = "done" /\ req.status # 200)

(***************************************************************************)
(* Health claims.                                                          *)
(***************************************************************************)
\* a step in which the sweep commits provider p's probe
SweepCommits(p) == sweep.pc = "loaded" /\ sweep'.pc = "idle" /\ InSweep(p)

\* C8 (first half): after n failed sweep probes in a row from (0 failures,
\* healthy), consecutive_failures is n and is_healthy is true exactly when
\* n < failure_threshold
C8_StreakInv ==
    \A p \in Providers :
        streak[p] >= 0 =>
            /\ providers[p].consecutive_failures = streak[p]
            /\ providers[p].is_healthy <=> (streak[p] < failure_threshold)

\* C8 (second half): a 2xx probe committed by the sweep (no other session
\* having written the row meanwhile) leaves the provider healthy, online and
\* with no failures
C8_RecoveryStep ==
    \A p \in Providers :
        (SweepCommits(p) /\ ~Interfered(p) /\ lastProbe'[p] = "ok") =>
            /\ providers'[p].is_healthy
            /\ providers'[p].status = "online"
            /\ providers'[p].consecutive_failures = 0

\* C8: is_healthy goes false at the failure_threshold-th consecutive failed
\* probe and not earlier, and a later 2xx probe restores healthy, online, 0
C8_HealthThreshold == []C8_StreakInv /\ [][C8_RecoveryStep]_vars

\* C8 witness: the threshold has just been reached by failed probes alone
C8_Witness ==
    \E p \in Providers :
        streak[p] = failure_threshold /\ ~providers[p].is_healthy

\* C9: consecutive_failures is never negative, and right after a sweep in
\* which the provider's probe returned 2xx it is 0
C9_FailuresNonNegative ==
    /\ [](\A p \in Providers : providers[p].consecutive_failures >= 0)
    /\ [][\A p \in Providers :
            (SweepCommits(p) /\ lastProbe'[p] = "ok")
                => providers'[p].consecutive_failures = 0]_vars

\* C9 witness: a provider made unhealthy by failed probes was brought back
\* by a 2xx probe, its counter at 0
C9_Witness ==
    \E p \in Providers :
        /\ lastProbe[p] = "ok" /\ healthSetBy[p] = "probe"
        /\ providers[p].is_healthy /\ providers[p].consecutive_failures = 0

\* C10 (as claimed): an unhealthy provider either had its latest probe fail
\* with consecutive_failures >= failure_threshold or was set unhealthy by
\* the operator
C10_UnhealthyJustified ==
    \A p \in Providers :
        ~providers[p].is_healthy =>
            \/ healthSetBy[p] = "override"
            \/ /\ lastProbe[p] = "fail"
               /\ providers[p].consecutive_failures >= failure_threshold

\* C22: an operator override sets is_healthy to the requested value and
\* consecutive_failures to 0 and leaves status, latency_ms, last_tested_at,
\* is_active and models of the provider, and the other providers, as they
\* were.
C22_OverrideFrame ==
    [][\A p \in Probed, healthy \in BOOLEAN :
        SetProviderHealth(p, healthy)
            => /\ providers'[p].is_healthy = healthy
               /\ providers'[p].consecutive_failures = 0
               /\ \A f \in {"status", "latency_ms", "last_tested_at", "is_active", "models"} :
                    providers'[p][f] = providers[p][f]
               /\ \A q \in Providers \ {p} : providers'[q] = providers[q]]_vars

\* C22 witness: a provider that probes had found failing was overridden to
\* healthy, and its status and test time are those of the probe
C22_Witness ==
    \E p \in Probed :
        /\ healthSetBy[p] = "override"
        /\ providers[p].is_healthy /\ providers[p].consecutive_failures = 0
        /\ providers[p].status \in {"timeout", "unreachable", "degraded", "error"}
        /\ providers[p].last_tested_at = "now"

\* C28: the synchronous test leaves status, latency_ms, consecutive_failures
\* and is_healthy of the provider with the values a sweep's probe of the
\* same outcome would leave.
C28_TestLikeSweep ==
    [][\A p \in Probed, outcome \in TestOutcomes :
        TestProviderConnectivity(p, outcome)
            => \A f \in {"status", "latency_ms", "consecutive_failures", "is_healthy"} :
                    providers'[p][f] = CheckProviderHealth(providers[p], outcome)[f]]_vars

\* C31: the commit of a sweep gives every provider the sweep read one
\* transition of the outcome table (online, degraded, timeout, unreachable or
\* error) with last_tested_at set to the time of the probe, whatever went
\* wrong while probing it, a failure to decrypt its key included.
C31_EveryProviderTransitions ==
    [][(sweep.pc = "loaded" /\ sweep'.pc = "idle")
        => \A p \in Providers :
            InSweep(p) =>
                /\ providers'[p].last_tested_at = "now"
                /\ providers'[p].status \in Statuses \ {"unknown"}
                /\ \E outcome \in ProbeOutcomes :
                      providers'[p] = Flush(providers[p], sweep.loaded[p],
                                            CheckProviderHealth(sweep.loaded[p], outcome))]_vars

\* C32: once stop() has set the flag the loop starts no sweep, and the task
\* comes to an end, by leaving its loop or by the cancellation that follows
\* stop()'s 5-second wait; with health checks disabled there is never a task
\* and stop() is over without waiting.
C32_LoopStops ==
    /\ [][checker.event = "set" => ~(checker.task # "sweep" /\ checker'.task = "sweep")]_vars
    /\ (checker.event = "set") ~> TaskOver(checker.task)
    /\ [](checker.stop = "done" => checker.task \in {"none", "done", "cancelled"})
    /\ [](~checker.enabled => checker.task = "none" /\ checker.stop # "waiting")

C32_Witness ==
    /\ checker.event = "set" /\ checker.stop = "done" /\ checker.task = "done"
    /\ \E p \in Probed : lastProbe[p] # "none"

\* C37: the commit of a failed probe (non-2xx, timeout, transport error or
\* other exception) never takes a provider's is_healthy from false to true.
C37_FailedProbeNeverHeals ==
    [][\A p \in Providers :
        (SweepCommits(p) /\ lastProbe'[p] = "fail" /\ ~providers[p].is_healthy)
            => ~providers'[p].is_healthy]_vars

\* C38: when an operator override has committed between the read and the
\* commit of a sweep, the sweep's commit leaves the provider's is_healthy and
\* consecutive_failures as one of the two serial orders does: the probe
\* applied to the overridden row, or the override applied after the probe.
C38_OverrideNotLost ==
    [][\A p \in Probed :
        (SweepCommits(p) /\ Interfered(p))
            => \E outcome \in ProbeOutcomes :
                /\ ProbeClass(outcome) = lastProbe'[p]
                /\ LET healthy == providers[p].is_healthy
                       probe_last == CheckProviderHealth(providers[p], outcome)
                       override_last ==
                           OverrideRow(CheckProviderHealth(sweep.loaded[p], outcome),
                                       healthy)
                   IN \E serial \in {probe_last, override_last} :
                        /\ providers'[p].is_healthy = serial.is_healthy
                        /\ providers'[p].consecutive_failures
                                = serial.consecutive_failures]_vars

(***************************************************************************)
(* Selection claims.                                                       *)
(***************************************************************************)
\* C15: every selection that returns, in any mode and with or without a
\* hint, returns a provider that was active and healthy in the rows the
\* selection read.
C15_SelectedIsUsable ==
    (lastSelect.op = "select" /\ lastSelect.result.ok)
        => lastSelect.result.provider \in lastSelect.usable

\* C15 witness: a selection with a hint on a multi route returned while
\* another provider was not usable
C15_Witness ==
    /\ lastSelect.op = "select" /\ lastSelect.result.ok
    /\ lastSelect.model_hint # ""
    /\ lastSelect.route.mode = "multi"
    /\ lastSelect.usable # Providers

\* the cursors of the route in the scheduling map
RouteCursors == DOMAIN round_robin_indices \cap {NodeKey, ProviderKey}

\* C16: after delete_route or reset_state on the route the scheduling map
\* holds no cursor of it, neither under the route id nor under the provider
\* key of the auto mode, and get_state reports none.
C16_NoCursorAfterReset ==
    lastSelect.op \in {"reset_state", "delete_route"}
        => /\ RouteCursors = {}
           /\ DOMAIN GetState(round_robin_indices) = {}

\* the models a hint can name on the route: those of the first node in
\* specific mode, those of the usable nodes in multi mode, and the
\* selectedModels of the config
HintCandidates(rt, usable) ==
    LET nodes == {i \in 1..Len(rt.route_nodes) :
                    /\ rt.route_nodes[i].api_id \in usable
                    /\ rt.mode = "specific" => i = 1}
    IN {m \in Hints : \/ Contains(rt.config.selectedModels, m)
                      \/ \E i \in nodes : Contains(NodeModels(rt.route_nodes[i]), m)}

\* C17: in specific and multi modes a selection whose hint is not among the
\* candidate models raises instead of returning another model.
C17_UnknownHintRaises ==
    (/\ lastSelect.op = "select"
     /\ lastSelect.route.mode \in {"specific", "multi"}
     /\ lastSelect.model_hint # ""
     /\ lastSelect.model_hint \notin HintCandidates(lastSelect.route, lastSelect.usable))
        => ~lastSelect.result.ok

\* the model the auto mode is to return for a hint and the chosen provider
AutoModel(rt, model_hint, p) ==
    LET selected_models == rt.config.selectedModels
        candidates == IF selected_models # <<>> THEN selected_models
                      ELSE providers[p].models
    IN IF Contains(candidates, model_hint) THEN model_hint
       ELSE candidates[1]

\* the providers an auto route chooses from
AutoPool(rt, usable) ==
    IF rt.config.providerMode = "all" THEN usable
    ELSE usable \cap {ProviderIdOf(rt.config.providerMode)}

\* C18: in auto mode a hint never makes a selection fail whose pool is not
\* empty: the hint is returned when it is among the candidate models of the
\* chosen provider, else selectedModels[0] when there is one, else the
\* provider's first model.
C18_AutoHintNeverFails ==
    (/\ lastSelect.op = "select"
     /\ lastSelect.route.mode = "auto" /\ lastSelect.route.is_active
     /\ lastSelect.model_hint # ""
     /\ AutoPool(lastSelect.route, lastSelect.usable) # {})
        => /\ lastSelect.result.ok
           /\ lastSelect.result.model =
                AutoModel(lastSelect.route, lastSelect.model_hint,
                          lastSelect.result.provider)

\* C23: a selection on an inactive route raises an error and a selection on
\* a route that does not exist raises RouteNotFound; neither returns a
\* provider nor creates or changes a cursor.
C23_NoSelectionOffRoute ==
    [][(lastSelect'.op = "select" /\ ~route.is_active)
            => /\ lastSelect'.result =
                    (IF route.name = "" THEN RouteNotFound ELSE Failure)
               /\ round_robin_indices' = round_robin_indices]_vars

\* C23 witness: a selection on a deleted route whose provider cursor is
\* still in the scheduling map
C23_Witness ==
    /\ lastSelect.op = "select"
    /\ lastSelect.route.name = ""
    /\ ProviderKey \in DOMAIN round_robin_indices

\* the nodes of the route a selection may return: their provider is usable
\* and, when a hint is given, their candidate models contain it
Eligible(rt, model_hint, usable) ==
    {i \in 1..Len(rt.route_nodes) :
        /\ rt.route_nodes[i].api_id \in usable
        /\ model_hint # "" => Contains(NodeModels(rt.route_nodes[i]), model_hint)}

\* C24: in multi mode a successful selection returns the provider of a node
\* of smallest priority value among the nodes whose provider is active and
\* healthy and, when a hint is given, whose candidate models contain the hint.
C24_MultiByPriority ==
    (/\ lastSelect.op = "select" /\ lastSelect.route.mode = "multi"
     /\ lastSelect.result.ok)
        => LET rt == lastSelect.route
               nodes == Eligible(rt, lastSelect.model_hint, lastSelect.usable)
           IN \E i \in nodes :
                /\ rt.route_nodes[i].api_id = lastSelect.result.provider
                /\ \A j \in nodes :
                        rt.route_nodes[i].priority <= rt.route_nodes[j].priority

\* C26: in auto mode a selection without a hint returns the first model of
\* the route's node for the selected provider when that node lists models,
\* not the first model of the provider's own list.
C26_AutoNodeModels ==
    (/\ lastSelect.op = "select" /\ lastSelect.route.mode = "auto"
     /\ lastSelect.model_hint = "" /\ lastSelect.result.ok)
        => \A i \in 1..Len(lastSelect.route.route_nodes) :
            LET node == lastSelect.route.route_nodes[i]
            IN (node.api_id = lastSelect.result.provider /\ node.models # <<>>)
                => lastSelect.result.model = node.models[1]

\* the latest call was a successful selection without a hint that rotated
\* a cursor: over the providers in auto mode, on a round-robin node in multi
\* mode
RotatedLast ==
    /\ lastSelect.op = "select" /\ lastSelect.result.ok
    /\ lastSelect.model_hint = ""
    /\ \/ /\ lastSelect.route.mode = "auto"
          /\ lastSelect.route.config.providerMode = "all"
       \/ /\ lastSelect.route.mode = "multi"
          /\ \E i \in 1..Len(lastSelect.route.route_nodes) :
                /\ lastSelect.route.route_nodes[i].api_id = lastSelect.result.provider
                /\ lastSelect.route.route_nodes[i].strategy = "round-robin"

\* C27: after a successful round-robin selection on the route get_state
\* returns a map that contains the route's cursor; before any selection on
\* the route it contains none.
C27_StateShowsCursor ==
    /\ RotatedLast => DOMAIN GetState(round_robin_indices) # {}
    /\ lastSelect.op = "none" => DOMAIN GetState(round_robin_indices) = {}

(***************************************************************************)
(* Store claims.                                                           *)
(***************************************************************************)
StoreWrites ==
    {"create_provider", "update_provider", "delete_provider",
     "create_route", "update_route", "delete_route"}

\* the items of a loaded backup, order left out
ItemsOf(data) ==
    [providers |-> {data.providers[k] : k \in 1..Len(data.providers)},
     routes |-> {data.routes[k] : k \in 1..Len(data.routes)}]

\* C11: once a create, update or delete of a provider or of a route has
\* returned, the backup file holds a snapshot of exactly the committed
\* providers and routes.
C11_BackupFollowsCommit ==
    (lastCall.op \in StoreWrites /\ lastCall.outcome = "returned")
        => /\ backup_file.exists
           /\ backup_file.text = JsonDumps(Payload(db))

\* C12: the backup file is at all times a whole snapshot, also when a
\* write_backup was interrupted: it is never a part of one.
C12_BackupNeverPartial ==
    backup_file.exists => JsonLoads(backup_file.text).ok

\* C13: a restore from a backup that write_backup wrote from a store s, run
\* on that store or on what is left of it after rows were lost, leaves
\* providers and routes equal to those of s by name and attributes.
C13_RestoreRoundTrip ==
    [][(/\ lastCall'.op = "restore_from_backup" /\ lastCall'.outcome = "returned"
        /\ written /\ session = db)
            => ByName(db') = ItemsOf(JsonLoads(backup_file.text))]_vars

\* C14: of two runs of restore_from_backup in a row, the second leaves the
\* store as the first left it, ids apart, and returns the same counts.
C14_RestoreIdempotent ==
    [][(/\ lastCall.op = "restore_from_backup" /\ lastCall.outcome = "returned"
        /\ lastCall'.op = "restore_from_backup" /\ lastCall'.outcome = "returned")
            => /\ ByName(db') = ByName(db)
               /\ lastCall'.restored = lastCall.restored]_vars

\* a route row that a call which raised left in the session
PendingRoute(route_id) ==
    /\ route_id \in DOMAIN session.model_routes
    /\ \/ route_id \notin DOMAIN db.model_routes
       \/ db.model_routes[route_id] # session.model_routes[route_id]

\* C20: a create or update that raised leaves the store as it was: the
\* route row it left in the session is not committed by a later call on
\* that session.
C20_FailedCallNotCommitted ==
    [][/\ (lastCall'.outcome = "raised" /\ lastCall'.op \in StoreWrites) => db' = db
       /\ \A route_id \in 1..MaxId :
            PendingRoute(route_id)
                => ~(/\ route_id \in DOMAIN db'.model_routes
                     /\ db'.model_routes[route_id] = session.model_routes[route_id])]_vars

\* every node of the store references a provider of the store that offers
\* the models the node lists
NodesValid(store) ==
    \A r \in DOMAIN store.model_routes :
        \A k \in 1..Len(store.model_routes[r].route_nodes) :
            LET node == store.model_routes[r].route_nodes[k]
            IN /\ node.api_id \in DOMAIN store.external_apis
               /\ \A i \in 1..Len(node.models) :
                    Contains(store.external_apis[node.api_id].models, node.models[i])

\* C21: after any sequence of creates, updates, deletes and restores of
\* providers and routes, every RouteNode of the database references an
\* existing provider that offers each model the node lists.
C21_NodesStayValid == NodesValid(db)

\* C25: a restore that commits gives every restored node the id of the
\* provider that bears the node's api_name, skips the nodes whose api_name
\* is borne by no named provider of the snapshot, and returns the numbers of
\* named providers and named routes of the snapshot.
C25_RestoreResolvesNames ==
    [][(lastCall'.op = "restore_from_backup" /\ lastCall'.outcome # "raised")
        => LET data == JsonLoads(backup_file.text)
               named(items) == {k \in 1..Len(items) : items[k].name # ""}
               known == {data.providers[k].name : k \in named(data.providers)}
               IdOf(name) == CHOOSE i \in DOMAIN db'.external_apis :
                                db'.external_apis[i].name = name
           IN /\ lastCall'.restored =
                    [providers |-> Cardinality(named(data.providers)),
                     routes |-> Cardinality(named(data.routes))]
              /\ \A k \in named(data.routes) :
                    \E r \in DOMAIN db'.model_routes :
                        /\ db'.model_routes[r].name = data.routes[k].name
                        /\ LET kept == SelectSeq(data.routes[k].nodes,
                                            LAMBDA n : n.api_name \in known)
                           IN db'.model_routes[r].route_nodes =
                                [j \in 1..Len(kept) |->
                                    [api_id |-> IdOf(kept[j].api_name),
                                     models |-> kept[j].models,
                                     strategy |-> kept[j].strategy,
                                     priority |-> kept[j].priority]]]_vars

\* C25 witness: a restore returned with one provider and one route; the
\* route's only node is on provider 2, which bears the name "X", the node of
\* the snapshot on the other provider having been skipped
C25_Witness ==
    /\ lastCall.op = "restore_from_backup" /\ lastCall.outcome = "returned"
    /\ lastCall.restored = [providers |-> 1, routes |-> 1]
    /\ \E r \in DOMAIN db.model_routes :
        /\ Len(db.model_routes[r].route_nodes) = 1
        /\ db.model_routes[r].route_nodes[1].api_id = 2
        /\ db.external_apis[2].name = "X"

\* every model of the route's config.selectedModels is offered by one of the
\* route's candidate providers: all providers or the one of providerMode in
\* auto mode, the provider of the first node in specific mode
ConfigOffered(store, rt) ==
    LET cand == IF rt.mode = "specific"
                THEN {rt.route_nodes[i].api_id : i \in DOMAIN rt.route_nodes \cap {1}}
                ELSE IF rt.config.providerMode = "all" THEN DOMAIN store.external_apis
                ELSE {ProviderIdOf(rt.config.providerMode)}
    IN \A k \in 1..Len(rt.config.selectedModels) :
        \E p \in cand \cap DOMAIN store.external_apis :
            Contains(store.external_apis[p].models, rt.config.selectedModels[k])

\* C29: create_route and update_route never commit an auto or specific route
\* whose config.selectedModels holds a model that no candidate provider
\* offers.
C29_ConfigModelsValidated ==
    [][(lastCall'.op \in {"create_route", "update_route"} /\ db' # db)
        => \A r \in DOMAIN db'.model_routes :
            (/\ db'.model_routes[r].mode \in {"auto", "specific"}
             /\ r \in DOMAIN db.model_routes => db'.model_routes[r] # db.model_routes[r])
                => ConfigOffered(db', db'.model_routes[r])]_vars

(***************************************************************************)
(* Endpoint claims.                                                        *)
(***************************************************************************)
\* C19: POST /v1/chat/completions takes the request's model as a route name
\* matched exactly: it answers 404 when no route has that name and 400 when
\* the route is inactive, and in both cases it selects no provider and
\* calls no upstream.
C19_EndpointRouteByName ==
    req.pc = "responded"
        => /\ route.name # req.model_hint
                => req.status = 404 /\ req.calls = <<>> /\ lastSelect.op = "none"
           /\ (route.name = req.model_hint /\ ~route.is_active)
                => req.status = 400 /\ req.calls = <<>> /\ lastSelect.op = "none"

(***************************************************************************)
(* Adapter claims.                                                         *)
(***************************************************************************)
\* the texts of the text parts of an upstream body, in order: content[*].text
\* of the blocks of type text, or candidates[0].content.parts[*].text
UpstreamTexts(adapter, response_data) ==
    LET HasText(x) == "text" \in DOMAIN x
        IsTextBlock(x) == x.type = "text" /\ HasText(x)
        Texts(xs) == [k \in 1..Len(xs) |-> xs[k].text]
    IN IF adapter = "anthropic"
       THEN IF "content" \in DOMAIN response_data
            THEN Texts(SelectSeq(response_data.content, IsTextBlock))
            ELSE <<>>
       ELSE IF /\ "candidates" \in DOMAIN response_data
               /\ response_data.candidates # <<>>
               /\ "content" \in DOMAIN response_data.candidates[1]
            THEN Texts(SelectSeq(response_data.candidates[1].content.parts, HasText))
            ELSE <<>>

\* the concatenation of a sequence of strings
RECURSIVE Concatenation(_)
Concatenation(texts) ==
    IF texts = <<>> THEN "" ELSE Head(texts) \o Concatenation(Tail(texts))

\* C30: whatever body the upstream sent, the choice parse_response of the
\* Anthropic and Gemini adapters returns has as content the concatenation of
\* the upstream text parts and as finish_reason one of stop, length,
\* content_filter, tool_calls.
C30_CanonicalChoice ==
    parsed.adapter # "none"
        => /\ parsed.choice.content
                = Concatenation(UpstreamTexts(parsed.adapter, parsed.response_data))
           /\ parsed.choice.finish_reason \in OpenAIFinishReasons

(***************************************************************************)
(* Rotation claims.                                                        *)
(***************************************************************************)
\* a call of select_provider_and_model on the route: the only step that
\* records a selection and leaves the providers and the route as they are
SelectStep ==
    /\ lastSelect'.op = "select"
    /\ UNCHANGED <<healthVars, route>>

\* C34: on an auto route with providerMode=all every successful selection,
\* with a hint or without, returns the provider at the route's cursor in the
\* pool of active and healthy providers and advances that cursor by one.
C34_AutoAllRotates ==
    [][(/\ SelectStep
        /\ route.mode = "auto" /\ route.config.providerMode = "all"
        /\ lastSelect'.result.ok /\ ActiveProviders # <<>>)
        => LET current_index == CursorOf(round_robin_indices, ProviderKey)
           IN /\ lastSelect'.result.provider = PickAt(ActiveProviders, current_index)
              /\ CursorOf(round_robin_indices', ProviderKey)
                    = NextIndex(current_index, Len(ActiveProviders))]_vars

\* C35: a call of select_provider_and_model that raises leaves every
\* scheduling cursor as it was: only a call that returns a provider and a
\* model advances one.
C35_FailedSelectKeepsCursors ==
    [][(SelectStep /\ ~lastSelect'.result.ok)
        => round_robin_indices' = round_robin_indices]_vars

\* C36: the model a successful selection returns is one of the models of
\* the provider it returns, in every mode, with config.selectedModels or
\* without.
C36_ModelOfProvider ==
    (lastSelect.op = "select" /\ lastSelect.result.ok)
        => Contains(providers[lastSelect.result.provider].models,
                    lastSelect.result.model)

(***************************************************************************)
(* Retry claims.                                                           *)
(***************************************************************************)
\* the providers a selection on the route can return
RouteProviders(rt) ==
    IF rt.mode = "auto"
    THEN IF rt.config.providerMode = "all" THEN Providers
         ELSE {ProviderIdOf(rt.config.providerMode)}
    ELSE IF rt.mode = "specific"
    THEN {rt.route_nodes[i].api_id : i \in DOMAIN rt.route_nodes \cap {1}}
    ELSE {rt.route_nodes[i].api_id : i \in DOMAIN rt.route_nodes}

Min(a, b) == IF a < b THEN a ELSE b

\* C39: a call makes at most max_retries selections and at most
\* min(max_retries, number of providers of the route) upstream calls; every
\* iteration left by `continue`, a skipped one included, has used up one
\* attempt; and the call comes to an end, with a response or with a
\* ChatCompletionError.
C39_BoundedRetries ==
    /\ [](/\ req.selects <= req.max_retries
          /\ Len(req.calls) <= Min(req.max_retries, Cardinality(RouteProviders(route)))
          /\ req.pc = "loop" => req.selects = req.attempt /\ req.attempt < req.max_retries
          /\ req.pc = "done" => req.status = 200 \/ req.status >= 400)
    /\ (req.pc \in {"loop", "streaming"}) ~> (req.pc = "done")

C39_Witness ==
    /\ req.pc = "done" /\ req.skipped
    /\ req.selects = req.max_retries /\ req.max_retries = MaxRetries
    /\ Len(req.calls) < req.selects
    /\ req.status >= 500

(***************************************************************************)
(* Cancellation claims.                                                    *)
(***************************************************************************)
\* C33: once the task of a request is cancelled during an upstream call the
\* call is over: the pipeline makes no further selection and no further
\* upstream call for that request, and answers nothing.
C33_NoRetryAfterCancel ==
    /\ [](req.cancelled => req.pc = "cancelled" /\ req.status = 0)
    /\ [][req.cancelled => /\ req' = NoRequest
                           /\ round_robin_indices' = round_robin_indices
                           /\ selectLog' = selectLog]_vars

C33_Witness ==
    /\ req.cancelled
    /\ req.calls # <<>>
    /\ req.attempt + 1 < req.max_retries
    /\ \E p \in Providers : p \notin req.attempted_providers /\ Usable(p)

(***************************************************************************)
(* Streaming claims                                                        *)
(***************************************************************************)
\* C40: the chunks stream_provider yields depend only on the upstream body,
\* not on how it is split into network reads: once the body has been read
\* to its end, every data frame the upstream sent has yielded its chunk
\* exactly once and in order, however the reads fell.
C40_ChunksOfEveryFrame ==
    upstream.pc = "ended"
        => upstream.chunks
              = [i \in 1..Len(upstream.sent) |->
                    ChunkOf(upstream.adapter, upstream.sent[i])]

====
